---- MODULE Spec2Model ----
(***************************************************************************)
(* Model of the PokeStop tracker: the cache store (cache_manager.py), the  *)
(* request handlers and refresh workers (app.py) and the scraper           *)
(* (scraper.py).  A Python dict is a function whose DOMAIN is its key set. *)
(***************************************************************************)
EXTENDS Integers, Sequences, FiniteSets, TLC

\* ---------------------------------------------------------------- bounds
NumLocations == 2
NumReq == 2
MaxWorkers == 2
MaxTicks == 1
MaxWrites == 2

\* ------------------------------------------------------ program constants
FreshMinutes == 5

LocationList == <<"NYC", "Sydney", "London", "Singapore", "Vancouver">>
Locations == {LocationList[i] : i \in 1..NumLocations}

\* The catalog keys the model follows: the default type and two others.
Types == {"fairy", "ghost", "electric"}

\* The types the requests ask for: the default type and one other, or two
\* types that are not the default.
RequestedTypes == {"fairy", "ghost"}
NewTypes == {"ghost", "electric"}

NoThread == 0
Reqs == 1..NumReq
WorkerIds == (NumReq + 1)..(NumReq + MaxWorkers)
Threads == Reqs \cup WorkerIds

VARIABLES
    now,                \* the wall clock, in minutes
    cache_dir,          \* TRUE when the cache directory exists (cache_dir is not None)
    cache_locks,        \* keys of RenderCacheManager.cache_locks
    lock_holder,        \* per type, the thread inside "with cache_lock" (NoThread: free)
    cache_memory,       \* RenderCacheManager.cache_memory
    last_fetch_times,   \* RenderCacheManager.last_fetch_times
    files,              \* the cache files: type -> [decodes, data]
    active_types,       \* app.active_types
    active_types_lock,  \* the holder of app.active_types_lock
    th,                 \* per thread: pc, type, data (local dict), res (result), ret
    write_seq,          \* number of writes that stamped cache_metadata
    written,            \* history: write_time -> the snapshot that write stored
    future,             \* fetch_all_locations: per location, the state of its future
    stops_by_location,  \* fetch_all_locations: the dict being filled
    pokestop_type,      \* PokeStopScraper: the type the scraper was built for
    current_time,       \* fetch_location_data: time.time() before the request
    meta,               \* the response's 'meta' object
    invasions,          \* the response's 'invasions' list
    stops,              \* _process_invasions: the list being built
    accepted,           \* history: what _is_valid_stop returned, per record
    scraper_pc,         \* _process_invasions: position of the scraper
    last_read,          \* history: per type, when a request last read its cache
    attempt,            \* retry_on_failure: the loop variable
    last_exception,     \* retry_on_failure: the exception kept for the final raise
    sleeps,             \* history: the arguments of the wrapper's time.sleep calls
    outcomes,           \* history: how each call of the wrapped function ended
    retry_result,       \* what the wrapper returned
    retry_pc,           \* position of the wrapper
    process,            \* "running", "stopping" (asked to terminate) or "exited"
    temp_files,         \* the files at <cache_file>.tmp: type -> [decodes, data]
    lock_table          \* the Lock objects: cache_locks as type -> object, the holder of
                        \* every object, and the holder of master_lock

fetchVars == <<future, stops_by_location>>

retryVars == <<attempt, last_exception, sleeps, outcomes, retry_result, retry_pc>>

scraperVars == <<pokestop_type, current_time, meta, invasions, stops, accepted,
                 scraper_pc>>

vars == <<now, cache_dir, cache_locks, lock_holder, cache_memory, last_fetch_times,
          files, active_types, active_types_lock, th, write_seq, written, fetchVars,
          scraperVars, last_read, lock_table, process, temp_files, retryVars>>

storeVars == <<cache_locks, lock_holder, cache_memory, last_fetch_times, files,
               write_seq, written>>

\* ------------------------------------------------------------ dict helpers
DictSet(d, k, v) == [x \in (DOMAIN d) \cup {k} |-> IF x = k THEN v ELSE d[x]]
DictDel(d, k) == [x \in (DOMAIN d) \ {k} |-> d[x]]
EmptyDict == [x \in {} |-> 0]

\* A JSON value that is a list where a dict is expected.
NotADict == [json_list |-> <<>>]
IsInstanceDict(v) == "json_list" \notin DOMAIN v

NoData == [none |-> TRUE]

\* A future of the thread pool: not submitted, running, finished with a list,
\* or finished by raising.
NoFuture == [state |-> "none", value |-> <<>>]
Pending == [state |-> "pending", value |-> <<>>]
Raised == [state |-> "raised", value |-> <<>>]
Finished(result) == [state |-> "done", value |-> result]

\* No wrapped call is under way.
NoRetry ==
    /\ attempt = 0
    /\ last_exception = "none"
    /\ sleeps = <<>>
    /\ outcomes = <<>>
    /\ retry_result = <<>>
    /\ retry_pc = "idle"

\* No scraper is processing a response.
NoScraper ==
    /\ pokestop_type = "fairy"
    /\ current_time = 0
    /\ meta = EmptyDict
    /\ invasions = <<>>
    /\ stops = <<>>
    /\ accepted = <<>>
    /\ scraper_pc = "idle"

\* The lists a location fetch can give; a stop is written as its
\* remaining_time, and a feed lists its stops in no particular order.
StopLists == {<<>>, <<400, 900>>}

\* strftime('%Y-%m-%d %H:%M:%S') of the clock
Strftime(t) == ToString(t)

GetEmptyCache(t) ==
    [stops |-> [l \in Locations |-> <<>>], last_updated |-> Strftime(t)]

\* A validation that accepts everything.
AcceptAnyData(d) == TRUE

ValidateCacheData(d) ==
    /\ {"stops", "last_updated"} \subseteq DOMAIN d
    /\ IsInstanceDict(d.stops)

CalculateDataHash(data) == data

CacheMetadata(d, c, stamp) ==
    [write_time |-> stamp, data_hash |-> CalculateDataHash(d.stops),
     pokestop_type |-> c, storage_type |-> "render_ephemeral"]

Idle == [pc |-> "idle", type |-> "fairy", data |-> NoData, res |-> NoData,
         ret |-> "idle", ok |-> TRUE, route |-> "/", cache_lock |-> 0]
NotStarted == [pc |-> "unborn", type |-> "fairy", data |-> NoData, res |-> NoData,
               ret |-> "idle", ok |-> TRUE, route |-> "/", cache_lock |-> 0]

\* No Lock object was created and master_lock is free.
NoLocks == [of |-> EmptyDict, owner |-> <<>>, master |-> NoThread]

\* The end of "with cache_lock" for the object the thread took from
\* _get_cache_lock, if it took one.
Released(t) ==
    IF th[t].cache_lock = 0 THEN lock_table
    ELSE [lock_table EXCEPT !.owner[th[t].cache_lock] = NoThread]

\* -------------------------------------------------------------- the store
CacheLockFree(c) == lock_holder[c] = NoThread

\* A store that merges the new stops into the entry it finds.
StoreMerged(mem, c, d) ==
    IF c \in DOMAIN mem /\ "stops" \in DOMAIN mem[c] /\ "stops" \in DOMAIN d
      THEN DictSet(mem, c, DictSet(mem[c], "stops", d.stops))
      ELSE DictSet(mem, c, d)

\* self.cache_memory[pokestop_type] = data.copy(): the entry is replaced as a whole
StoreSnapshot(mem, c, d) == DictSet(mem, c, d)

IsFresh(c) ==
    /\ c \in DOMAIN cache_memory
    /\ now - (IF c \in DOMAIN last_fetch_times THEN last_fetch_times[c] ELSE -1000000)
         < FreshMinutes

FileReadable(c) == cache_dir /\ c \in DOMAIN files /\ files[c].decodes

\* What read_cache returns, by the state it finds under the lock.
ReadCacheResult(c) ==
    IF IsFresh(c) THEN cache_memory[c]
    ELSE IF FileReadable(c) THEN files[c].data
    ELSE GetEmptyCache(now)

\* _get_cache_lock (the lock is created on first use) and "with cache_lock"
AcquireCacheLock(t) ==
    /\ th[t].pc \in {"rc_acquire", "wc_acquire"}
    /\ CacheLockFree(th[t].type)
    /\ cache_locks' = cache_locks \cup {th[t].type}
    /\ lock_holder' = [lock_holder EXCEPT ![th[t].type] = t]
    /\ th' = [th EXCEPT ![t].pc = IF th[t].pc = "rc_acquire" THEN "rc_body"
                                                             ELSE "wc_memory"]
    /\ UNCHANGED <<now, cache_dir, cache_memory, last_fetch_times, files,
                   active_types, active_types_lock, write_seq, written>>
    /\ UNCHANGED <<fetchVars, scraperVars, last_read, lock_table, process, temp_files, retryVars>>

\* read_cache, the body under the lock, and the return.
ReadCacheBody(t) ==
    LET c == th[t].type IN
    /\ th[t].pc = "rc_body"
    /\ IF (~IsFresh(c)) /\ FileReadable(c)
         THEN /\ cache_memory' = DictSet(cache_memory, c, files[c].data)
              /\ last_fetch_times' = DictSet(last_fetch_times, c, now)
         ELSE UNCHANGED <<cache_memory, last_fetch_times>>
    /\ lock_holder' = [lock_holder EXCEPT ![c] = NoThread]
    /\ th' = [th EXCEPT ![t].res = ReadCacheResult(c), ![t].pc = th[t].ret,
                        ![t].cache_lock = 0]
    /\ last_read' = IF t \in Reqs THEN DictSet(last_read, c, now) ELSE last_read
    /\ lock_table' = Released(t)
    /\ UNCHANGED <<now, cache_dir, cache_locks, files, active_types, active_types_lock,
                   write_seq, written>>
    /\ UNCHANGED <<fetchVars, scraperVars, process, temp_files, retryVars>>

\* write_cache up to the update of the in-memory maps.
WriteCacheMemory(t) ==
    LET c == th[t].type
        d == th[t].data IN
    /\ th[t].pc = "wc_memory"
    /\ IF (~ValidateCacheData(d)) \/ "stops" \notin DOMAIN d
         THEN \* return False (invalid structure, or KeyError caught at line 123)
              /\ lock_holder' = [lock_holder EXCEPT ![c] = NoThread]
              /\ lock_table' = Released(t)
              /\ th' = [th EXCEPT ![t].ok = FALSE, ![t].pc = th[t].ret,
                                  ![t].cache_lock = 0]
              /\ UNCHANGED <<cache_memory, last_fetch_times, write_seq, written>>
         ELSE LET stamped == DictSet(d, "cache_metadata",
                                     CacheMetadata(d, c, write_seq + 1)) IN
              /\ write_seq < MaxWrites
              /\ write_seq' = write_seq + 1
              /\ written' = DictSet(written, write_seq + 1, stamped)
              /\ cache_memory' = StoreSnapshot(cache_memory, c, stamped)
              /\ last_fetch_times' = DictSet(last_fetch_times, c, now)
              /\ th' = [th EXCEPT ![t].data = stamped, ![t].pc = "wc_file"]
              /\ UNCHANGED <<lock_holder, lock_table>>
    /\ UNCHANGED <<now, cache_dir, cache_locks, files, active_types, active_types_lock>>
    /\ UNCHANGED <<fetchVars, scraperVars, last_read, process, temp_files, retryVars>>

\* write_cache, the best-effort file write (temp file, then rename) and the return.
WriteCacheFile(t) ==
    LET c == th[t].type IN
    /\ th[t].pc = "wc_file"
    /\ \/ /\ cache_dir
          /\ files' = DictSet(files, c, [decodes |-> TRUE, data |-> th[t].data])
       \/ UNCHANGED files      \* no cache directory, or the file write failed
    /\ lock_holder' = [lock_holder EXCEPT ![c] = NoThread]
    /\ lock_table' = Released(t)
    /\ th' = [th EXCEPT ![t].ok = TRUE, ![t].pc = th[t].ret, ![t].cache_lock = 0]
    /\ UNCHANGED <<now, cache_dir, cache_locks, cache_memory, last_fetch_times,
                   active_types, active_types_lock, write_seq, written>>
    /\ UNCHANGED <<fetchVars, scraperVars, last_read, process, temp_files, retryVars>>

\* Five minutes pass.  A request is served and a lock is held for far less than
\* that (gunicorn_config.py: timeout = 30), so the clock jumps only between
\* requests and while the workers are between two cache calls.
Tick ==
    /\ now < MaxTicks * FreshMinutes
    /\ \A t \in Threads : th[t].pc \in {"idle", "done", "unborn", "fetch", "sleep"}
    /\ now' = now + FreshMinutes
    /\ UNCHANGED <<cache_dir, cache_locks, lock_holder, cache_memory, last_fetch_times,
                   files, active_types, active_types_lock, th, write_seq, written>>
    /\ UNCHANGED <<fetchVars, scraperVars, last_read, lock_table, process, temp_files, retryVars>>

\* ------------------------------------------------------------------ app.py
Loops(c) == {w \in WorkerIds : th[w].pc # "unborn" /\ th[w].type = c}

\* A lock that excludes nobody.
ActiveTypesLockIgnored == TRUE

ActiveTypesLockFree == active_types_lock = NoThread

\* GET /: a request arrives (one thread per request, in the order of their ids),
\* validate_input gives the catalog key c, and start_cache_thread(c) enters
\* "with active_types_lock".
GetPokestops(t, c) ==
    /\ t \in Reqs
    /\ th[t].pc = "idle"
    /\ \A u \in Reqs : u < t => th[u].pc # "idle"
    /\ ActiveTypesLockFree
    /\ active_types_lock' = t
    /\ th' = [th EXCEPT ![t] = [Idle EXCEPT !.pc = "sct_check", !.type = c]]
    /\ UNCHANGED <<now, cache_dir, storeVars, active_types>>
    /\ UNCHANGED <<fetchVars, scraperVars, last_read, lock_table, process, temp_files, retryVars>>

\* start_cache_thread: "if pokestop_type not in active_types"; when it is, the
\* with-block ends and the handler goes on to read the cache.
SctCheck(t) ==
    /\ th[t].pc = "sct_check"
    /\ IF th[t].type \notin active_types
         THEN \* initialize_cache: existing_cache = self.read_cache(pokestop_type)
              /\ th' = [th EXCEPT ![t].pc = "rc_acquire", ![t].ret = "init_check"]
              /\ UNCHANGED active_types_lock
         ELSE /\ active_types_lock' = NoThread
              /\ th' = [th EXCEPT ![t].pc = "rc_acquire", ![t].ret = "page_render"]
    /\ UNCHANGED <<now, cache_dir, storeVars, active_types>>
    /\ UNCHANGED <<fetchVars, scraperVars, last_read, lock_table, process, temp_files, retryVars>>

AnyStops(d) ==
    /\ "stops" \in DOMAIN d
    /\ IsInstanceDict(d.stops)
    /\ \E l \in DOMAIN d.stops : Len(d.stops[l]) > 0

\* initialize_cache: write the empty structure unless the cache holds stops.
InitializeCacheCheck(t) ==
    /\ th[t].pc = "init_check"
    /\ IF ~AnyStops(th[t].res)
         THEN th' = [th EXCEPT ![t].data = GetEmptyCache(now),
                               ![t].pc = "wc_acquire", ![t].ret = "sct_start"]
         ELSE th' = [th EXCEPT ![t].pc = "sct_start"]
    /\ UNCHANGED <<now, cache_dir, storeVars, active_types, active_types_lock>>
    /\ UNCHANGED <<fetchVars, scraperVars, last_read, lock_table, process, temp_files, retryVars>>

FreeWorker == CHOOSE w \in WorkerIds :
                 /\ th[w].pc = "unborn"
                 /\ \A v \in WorkerIds : th[v].pc = "unborn" => w <= v

\* start_cache_thread: thread.start() of update_cache_worker(pokestop_type)
SctStart(t) ==
    /\ th[t].pc = "sct_start"
    /\ \E w \in WorkerIds : th[w].pc = "unborn"
    /\ th' = [th EXCEPT ![t].pc = "sct_add",
                        ![FreeWorker] = [Idle EXCEPT !.pc = "fetch",
                                                     !.type = th[t].type]]
    /\ UNCHANGED <<now, cache_dir, storeVars, active_types, active_types_lock>>
    /\ UNCHANGED <<fetchVars, scraperVars, last_read, lock_table, process, temp_files, retryVars>>

\* start_cache_thread: active_types.add(pokestop_type); the with-block ends.
SctAdd(t) ==
    /\ th[t].pc = "sct_add"
    /\ active_types' = active_types \cup {th[t].type}
    /\ active_types_lock' = NoThread
    /\ th' = [th EXCEPT ![t].pc = "rc_acquire", ![t].ret = "page_render"]
    /\ UNCHANGED <<now, cache_dir, storeVars>>
    /\ UNCHANGED <<fetchVars, scraperVars, last_read, lock_table, process, temp_files, retryVars>>

\* sorted(list, key=remaining_time, reverse=True): stable, descending
SortedDescending(list) ==
    LET n == Len(list)
        Rank(i) == 1 + Cardinality({j \in 1..n : \/ list[j] > list[i]
                                                 \/ list[j] = list[i] /\ j < i})
    IN  [k \in 1..n |-> list[CHOOSE i \in 1..n : Rank(i) = k]]

\* for location in stops: stops[location] = sorted(...), on the dict itself
SortInPlace(d) ==
    IF "stops" \in DOMAIN d /\ IsInstanceDict(d.stops)
      THEN [d EXCEPT !.stops = [l \in DOMAIN d.stops |-> SortedDescending(d.stops[l])]]
      ELSE d

\* read_cache returned the dict object that cache_memory holds (and not a new
\* empty template): the two carry the same write stamp.
IsStoredObject(d, c) ==
    /\ c \in DOMAIN cache_memory
    /\ "cache_metadata" \in DOMAIN d
    /\ "cache_metadata" \in DOMAIN cache_memory[c]
    /\ d.cache_metadata = cache_memory[c].cache_metadata

\* What get_pokestops hands to the template for the dict it has read: the
\* sorted lists of data.get('stops', {}) with data.get('last_updated',
\* 'Unknown'), or, when the sorting or the rendering raises because 'stops' is
\* no dict, the fallback of the except clause.  Both are rendered as a page.
PageResponse(d) ==
    LET last_updated == IF "last_updated" \in DOMAIN d THEN d.last_updated
                                                       ELSE "Unknown" IN
    IF "stops" \notin DOMAIN d
      THEN [status |-> 200, stops |-> EmptyDict,
            last_updated |-> last_updated]
    ELSE IF ~IsInstanceDict(d.stops)
      THEN [status |-> 200, stops |-> [l \in Locations |-> <<>>],
            last_updated |-> Strftime(now)]
    ELSE [status |-> 200, stops |-> SortInPlace(d).stops,
          last_updated |-> last_updated]

\* get_pokestops after read_cache: the lists of data['stops'] are sorted for
\* display, which changes the stored dict when data is that dict; then the
\* response is built and sent.
PageRender(t) ==
    LET c == th[t].type IN
    /\ th[t].pc = "page_render"
    /\ th' = [th EXCEPT ![t] = [Idle EXCEPT !.pc = "done",
                                            !.ok = PageResponse(th[t].res).status = 200]]
    /\ cache_memory' = IF IsStoredObject(th[t].res, c)
                         THEN DictSet(cache_memory, c, SortInPlace(cache_memory[c]))
                         ELSE cache_memory
    /\ UNCHANGED <<now, cache_dir, cache_locks, lock_holder, last_fetch_times, files,
                   write_seq, written, active_types, active_types_lock>>
    /\ UNCHANGED <<fetchVars, scraperVars, last_read, lock_table, process, temp_files, retryVars>>

\* What one fetch_all_locations call can give update_cache_worker: an exception
\* (the collective timeout) or a dict with a list per location.
FanOutResults == {[l \in Locations |-> s] : s \in StopLists}

\* A loop whose cycle lets the exception through: the thread ends.
CycleExceptionPropagates == "dead"

\* except Exception as e: the error is logged and the loop goes on to its wait
CycleExceptionCaught == "sleep"

\* A loop that starts its next fetch as soon as the write has returned.
AfterWriteCacheNoWait == "fetch"

\* after write_cache has returned the loop is at time.sleep(config.UPDATE_INTERVAL)
AfterWriteCache == "sleep"

\* A loop that publishes the empty structure when its cycle has failed.
EmptyPublishedOnFailure(c) == DictSet(cache_memory, c, GetEmptyCache(now))

\* except Exception as e: logger.error(...) and nothing else: the memory map
\* after a cycle of type c that raised
MemoryAfterFailedCycle(c) == cache_memory

\* update_cache_worker: one cycle up to the write_cache call.
WorkerFetch(w) ==
    /\ w \in WorkerIds
    /\ th[w].pc = "fetch"
    /\ \/ /\ \E sbl \in FanOutResults :
               th' = [th EXCEPT ![w].data = [stops |-> sbl, last_updated |-> Strftime(now)],
                                ![w].pc = "wc_acquire", ![w].ret = AfterWriteCache]
          /\ UNCHANGED cache_memory
       \/ /\ th' = [th EXCEPT ![w].pc = CycleExceptionCaught]
          /\ cache_memory' = MemoryAfterFailedCycle(th[w].type)
    /\ UNCHANGED <<now, cache_dir, cache_locks, lock_holder, last_fetch_times, files,
                   write_seq, written, active_types, active_types_lock>>
    /\ UNCHANGED <<fetchVars, scraperVars, last_read, lock_table, process, temp_files, retryVars>>

\* update_cache_worker: time.sleep(config.UPDATE_INTERVAL), then the next cycle
WorkerSleep(w) ==
    /\ w \in WorkerIds
    /\ th[w].pc = "sleep"
    /\ th' = [th EXCEPT ![w] = [Idle EXCEPT !.pc = "fetch", !.type = th[w].type]]
    /\ UNCHANGED <<now, cache_dir, storeVars, active_types, active_types_lock>>
    /\ UNCHANGED <<fetchVars, scraperVars, last_read, lock_table, process, temp_files, retryVars>>

\* ------------------------------------------------------- the application
Init ==
    /\ now = 0
    /\ cache_dir = TRUE
    /\ cache_locks = {}
    /\ lock_holder = [c \in Types |-> NoThread]
    /\ cache_memory = EmptyDict
    /\ last_fetch_times = EmptyDict
    /\ files = EmptyDict
    /\ active_types = {"fairy"}
    /\ active_types_lock = NoThread
    /\ th = [t \in Threads |-> IF t \in Reqs THEN Idle ELSE NotStarted]
    /\ write_seq = 0
    /\ written = EmptyDict
    /\ future = [l \in Locations |-> NoFuture]
    /\ stops_by_location = EmptyDict
    /\ NoScraper
    /\ last_read = EmptyDict
    /\ process = "running"
    /\ temp_files = EmptyDict
    /\ lock_table = NoLocks
    /\ NoRetry

Next ==
    \/ \E t \in Reqs, c \in RequestedTypes : GetPokestops(t, c)
    \/ \E t \in Reqs : SctCheck(t)
    \/ \E t \in Reqs : InitializeCacheCheck(t)
    \/ \E t \in Reqs : SctStart(t)
    \/ \E t \in Reqs : SctAdd(t)
    \/ \E t \in Reqs : PageRender(t)
    \/ \E t \in Threads : AcquireCacheLock(t)
    \/ \E t \in Threads : ReadCacheBody(t)
    \/ \E t \in Threads : WriteCacheMemory(t)
    \/ \E t \in Threads : WriteCacheFile(t)
    \/ \E w \in WorkerIds : WorkerFetch(w)
    \/ \E w \in WorkerIds : WorkerSleep(w)
    \/ Tick

Spec == Init /\ [][Next]_vars

TypeOK ==
    /\ active_types \subseteq Types
    /\ DOMAIN cache_memory \subseteq Types

\* ------------------------------------------- the store under direct calls
\* Snapshots a caller may hand to write_cache: well-formed ones, one without
\* 'stops' and one whose 'stops' is a list.
WriteInputs ==
    {[stops |-> sbl, last_updated |-> Strftime(now)] : sbl \in FanOutResults}
      \cup {[last_updated |-> Strftime(now)],
            [stops |-> NotADict, last_updated |-> Strftime(now)]}

\* A file left in the cache directory by an earlier process: a snapshot, an
\* object that decodes but is no snapshot, or bytes that do not decode.
LeftoverFiles ==
    {[decodes |-> TRUE,
      data |-> [stops |-> [l \in Locations |-> <<900>>], last_updated |-> "earlier"]],
     [decodes |-> TRUE, data |-> [last_updated |-> "earlier"]],
     [decodes |-> TRUE, data |-> [stops |-> NotADict, last_updated |-> "earlier"]],
     [decodes |-> FALSE, data |-> NoData]}

\* One call per caller thread, the callers arriving in the order of their ids.
ReadCacheCall(t, c) ==
    /\ t \in Reqs
    /\ th[t].pc = "idle"
    /\ \A u \in Reqs : u < t => th[u].pc # "idle"
    /\ th' = [th EXCEPT ![t] = [Idle EXCEPT !.pc = "rc_acquire", !.type = c,
                                            !.ret = "call_done"]]
    /\ UNCHANGED <<now, cache_dir, storeVars, active_types, active_types_lock>>
    /\ UNCHANGED <<fetchVars, scraperVars, last_read, lock_table, process, temp_files, retryVars>>

WriteCacheCall(t, c, d) ==
    /\ t \in Reqs
    /\ th[t].pc = "idle"
    /\ \A u \in Reqs : u < t => th[u].pc # "idle"
    /\ th' = [th EXCEPT ![t] = [Idle EXCEPT !.pc = "wc_acquire", !.type = c,
                                            !.data = d, !.ret = "call_done"]]
    /\ UNCHANGED <<now, cache_dir, storeVars, active_types, active_types_lock>>
    /\ UNCHANGED <<fetchVars, scraperVars, last_read, lock_table, process, temp_files, retryVars>>

\* The caller has its answer.
CallDone(t) ==
    /\ th[t].pc = "call_done"
    /\ th' = [th EXCEPT ![t] = [Idle EXCEPT !.pc = "done"]]
    /\ UNCHANGED <<now, cache_dir, storeVars, active_types, active_types_lock>>
    /\ UNCHANGED <<fetchVars, scraperVars, last_read, lock_table, process, temp_files, retryVars>>

InitStore ==
    /\ now = 0
    /\ cache_dir \in BOOLEAN
    /\ cache_locks = {}
    /\ lock_holder = [c \in Types |-> NoThread]
    /\ cache_memory = EmptyDict
    /\ last_fetch_times = EmptyDict
    /\ files \in {EmptyDict} \cup {[c \in {"ghost"} |-> f] : f \in LeftoverFiles}
    /\ cache_dir \/ files = EmptyDict
    /\ active_types = {"fairy"}
    /\ active_types_lock = NoThread
    /\ th = [t \in Threads |-> IF t \in Reqs THEN Idle ELSE NotStarted]
    /\ write_seq = 0
    /\ written = EmptyDict
    /\ future = [l \in Locations |-> NoFuture]
    /\ stops_by_location = EmptyDict
    /\ NoScraper
    /\ last_read = EmptyDict
    /\ process = "running"
    /\ temp_files = EmptyDict
    /\ lock_table = NoLocks
    /\ NoRetry

NextStore ==
    \/ \E t \in Reqs, c \in RequestedTypes : ReadCacheCall(t, c)
    \/ \E t \in Reqs : \E d \in WriteInputs : WriteCacheCall(t, "ghost", d)
    \/ \E t \in Reqs : CallDone(t)
    \/ \E t \in Reqs : AcquireCacheLock(t)
    \/ \E t \in Reqs : ReadCacheBody(t)
    \/ \E t \in Reqs : WriteCacheMemory(t)
    \/ \E t \in Reqs : WriteCacheFile(t)
    \/ Tick

SpecStore == InitStore /\ [][NextStore]_vars

\* ------------------------------------------- the file write of write_cache
\* A file that gzip.open has created or truncated and json.dump has not
\* finished: it does not decode.
PartialFile == [decodes |-> FALSE, data |-> NoData]

\* return True at the end of write_cache, leaving "with cache_lock"
WriteCacheReturns(t) ==
    /\ lock_holder' = [lock_holder EXCEPT ![th[t].type] = NoThread]
    /\ th' = [th EXCEPT ![t].ok = TRUE, ![t].pc = th[t].ret]

\* A write that renames whatever the temporary file holds after json.dump failed.
RenameAfterDumpFailure == "wc_rename"

\* except Exception: a failure inside the inner try goes to the clean-up
AfterDumpFailure == "wc_cleanup"

\* cache_file = self.get_cache_file(...); gzip.open(temp_file, 'wt')
GzipOpenTemp(t) ==
    LET c == th[t].type IN
    /\ th[t].pc = "wc_file"
    /\ \/ /\ ~cache_dir                   \* cache_file is None
          /\ WriteCacheReturns(t)
          /\ UNCHANGED temp_files
       \/ /\ cache_dir
          /\ temp_files' = DictSet(temp_files, c, PartialFile)
          /\ th' = [th EXCEPT ![t].pc = "wc_dump"]
          /\ UNCHANGED lock_holder
       \/ /\ cache_dir                    \* gzip.open raises
          /\ th' = [th EXCEPT ![t].pc = "wc_cleanup"]
          /\ UNCHANGED <<lock_holder, temp_files>>
    /\ UNCHANGED <<now, cache_dir, cache_locks, cache_memory, last_fetch_times, files,
                   active_types, active_types_lock, write_seq, written>>
    /\ UNCHANGED <<fetchVars, scraperVars, last_read, lock_table, process, retryVars>>

\* json.dump(data, f, ...) and the end of the "with" block
JsonDump(t) ==
    LET c == th[t].type IN
    /\ th[t].pc = "wc_dump"
    /\ \/ /\ temp_files' = DictSet(temp_files, c, [decodes |-> TRUE, data |-> th[t].data])
          /\ th' = [th EXCEPT ![t].pc = "wc_rename"]
       \/ /\ th' = [th EXCEPT ![t].pc = AfterDumpFailure]    \* the write raises
          /\ UNCHANGED temp_files
    /\ UNCHANGED <<now, cache_dir, cache_locks, lock_holder, cache_memory,
                   last_fetch_times, files, active_types, active_types_lock, write_seq,
                   written>>
    /\ UNCHANGED <<fetchVars, scraperVars, last_read, lock_table, process, retryVars>>

\* os.rename(temp_file, cache_file)
OsRename(t) ==
    LET c == th[t].type IN
    /\ th[t].pc = "wc_rename"
    /\ \/ /\ files' = DictSet(files, c, temp_files[c])
          /\ temp_files' = DictDel(temp_files, c)
          /\ WriteCacheReturns(t)
       \/ /\ th' = [th EXCEPT ![t].pc = "wc_cleanup"]        \* the rename raises
          /\ UNCHANGED <<files, temp_files, lock_holder>>
    /\ UNCHANGED <<now, cache_dir, cache_locks, cache_memory, last_fetch_times,
                   active_types, active_types_lock, write_seq, written>>
    /\ UNCHANGED <<fetchVars, scraperVars, last_read, lock_table, process, retryVars>>

\* A write_cache that reports the failure of its file write.
FileFailureFailsWrite == FALSE

\* what write_cache returns after the except clause of the file write: True
FileFailureResult == TRUE

\* if os.path.exists(temp_file): os.remove(temp_file), an OSError passed over
CleanUpTemp(t) ==
    LET c == th[t].type IN
    /\ th[t].pc = "wc_cleanup"
    /\ \/ temp_files' = DictDel(temp_files, c)
       \/ c \in DOMAIN temp_files /\ UNCHANGED temp_files    \* os.remove raises
    /\ lock_holder' = [lock_holder EXCEPT ![c] = NoThread]
    /\ th' = [th EXCEPT ![t].ok = FileFailureResult, ![t].pc = th[t].ret]
    /\ UNCHANGED <<now, cache_dir, cache_locks, cache_memory, last_fetch_times, files,
                   active_types, active_types_lock, write_seq, written>>
    /\ UNCHANGED <<fetchVars, scraperVars, last_read, lock_table, process, retryVars>>

\* The cache directory is empty or holds the snapshot of an earlier run.
InitFile ==
    /\ InitStore
    /\ \A c \in DOMAIN files : files[c].decodes /\ ValidateCacheData(files[c].data)

NextFile ==
    \/ \E t \in Reqs : \E d \in WriteInputs : WriteCacheCall(t, "ghost", d)
    \/ \E t \in Reqs : CallDone(t)
    \/ \E t \in Reqs : AcquireCacheLock(t)
    \/ \E t \in Reqs : WriteCacheMemory(t)
    \/ \E t \in Reqs : GzipOpenTemp(t)
    \/ \E t \in Reqs : JsonDump(t)
    \/ \E t \in Reqs : OsRename(t)
    \/ \E t \in Reqs : CleanUpTemp(t)

SpecFile == InitFile /\ [][NextFile]_vars

\* ------------------------------------------ fetch_all_locations in steps
\* executor.submit(fetch_location_data, location, url) for every location
FanOutSubmit(w) ==
    /\ th[w].pc = "fetch"
    /\ future' = [l \in Locations |-> Pending]
    /\ stops_by_location' = EmptyDict
    /\ th' = [th EXCEPT ![w].pc = "collect"]
    /\ UNCHANGED <<now, cache_dir, storeVars, active_types, active_types_lock,
                   scraperVars, last_read, lock_table, process, temp_files, retryVars>>

\* One fetch_location_data call ends: it returns its stops, or raises once its
\* retries are used up.
FutureFinish(l) ==
    /\ future[l].state = "pending"
    /\ \/ \E result \in StopLists : future' = [future EXCEPT ![l] = Finished(result)]
       \/ future' = [future EXCEPT ![l] = Raised]
    /\ UNCHANGED <<now, cache_dir, storeVars, active_types, active_types_lock, th,
                   stops_by_location, scraperVars, last_read, lock_table, process, temp_files, retryVars>>

\* A collection that stores [] whatever the future gave.
FutureResultDiscarded(f) == <<>>

\* future.result(), or [] when it raises
FutureResult(f) == IF f.state = "raised" THEN <<>> ELSE f.value

\* as_completed yields a finished future; its slot is filled.
FanOutCollect(w, l) ==
    /\ th[w].pc = "collect"
    /\ future[l].state \in {"done", "raised"}
    /\ l \notin DOMAIN stops_by_location
    /\ stops_by_location' = DictSet(stops_by_location, l, FutureResult(future[l]))
    /\ UNCHANGED <<now, cache_dir, storeVars, active_types, active_types_lock, th,
                   future, scraperVars, last_read, lock_table, process, temp_files, retryVars>>

\* as_completed(..., timeout=60) raises TimeoutError with futures unfinished;
\* leaving the with-block waits for them (executor shutdown).
FanOutTimeout(w) ==
    /\ th[w].pc = "collect"
    /\ \E l \in Locations : future[l].state = "pending"
    /\ th' = [th EXCEPT ![w].pc = "shutdown"]
    /\ UNCHANGED <<now, cache_dir, storeVars, active_types, active_types_lock,
                   fetchVars, scraperVars, last_read, lock_table, process, temp_files, retryVars>>

\* The TimeoutError reaches update_cache_worker's "except Exception": no write.
FanOutRaise(w) ==
    /\ th[w].pc = "shutdown"
    /\ \A l \in Locations : future[l].state # "pending"
    /\ th' = [th EXCEPT ![w].pc = "sleep"]
    /\ UNCHANGED <<now, cache_dir, storeVars, active_types, active_types_lock,
                   fetchVars, scraperVars, last_read, lock_table, process, temp_files, retryVars>>

\* A loop over as_completed that stops before every future was yielded.
FanOutStopsEarly == TRUE

\* The loop over as_completed has yielded every future.
FanOutComplete == DOMAIN stops_by_location = Locations

\* fetch_all_locations returns; update_cache_worker builds cache_data and calls
\* write_cache.
FanOutReturn(w) ==
    /\ th[w].pc = "collect"
    /\ FanOutComplete
    /\ th' = [th EXCEPT ![w].data = [stops |-> stops_by_location,
                                     last_updated |-> Strftime(now)],
                        ![w].pc = "wc_acquire", ![w].ret = AfterWriteCache]
    /\ UNCHANGED <<now, cache_dir, storeVars, active_types, active_types_lock,
                   fetchVars, scraperVars, last_read, lock_table, process, temp_files, retryVars>>

FirstWorker == NumReq + 1

\* The snapshot initialize_cache stored when the category was activated.
SeedSnapshot(c) ==
    DictSet(GetEmptyCache(0), "cache_metadata", CacheMetadata(GetEmptyCache(0), c, 1))

\* The state once GET /?type=ghost has activated the category and was answered.
InitFetch ==
    /\ now = 0
    /\ cache_dir = TRUE
    /\ cache_locks = {"ghost"}
    /\ lock_holder = [c \in Types |-> NoThread]
    /\ cache_memory = [c \in {"ghost"} |-> SeedSnapshot(c)]
    /\ last_fetch_times = [c \in {"ghost"} |-> 0]
    /\ files = [c \in {"ghost"} |-> [decodes |-> TRUE, data |-> SeedSnapshot(c)]]
    /\ active_types = {"fairy", "ghost"}
    /\ active_types_lock = NoThread
    /\ th = [t \in Threads |->
               IF t \in Reqs THEN [Idle EXCEPT !.pc = "done"]
               ELSE IF t = FirstWorker THEN [Idle EXCEPT !.pc = "fetch", !.type = "ghost"]
               ELSE NotStarted]
    /\ write_seq = 1
    /\ written = [k \in {1} |-> SeedSnapshot("ghost")]
    /\ future = [l \in Locations |-> NoFuture]
    /\ stops_by_location = EmptyDict
    /\ NoScraper
    /\ last_read = [c \in {"ghost"} |-> 0]
    /\ process = "running"
    /\ temp_files = EmptyDict
    /\ lock_table = NoLocks
    /\ NoRetry

NextFetch ==
    \/ \E w \in WorkerIds : FanOutSubmit(w)
    \/ \E l \in Locations : FutureFinish(l)
    \/ \E w \in WorkerIds, l \in Locations : FanOutCollect(w, l)
    \/ \E w \in WorkerIds : FanOutTimeout(w)
    \/ \E w \in WorkerIds : FanOutRaise(w)
    \/ \E w \in WorkerIds : FanOutReturn(w)
    \/ \E w \in WorkerIds : AcquireCacheLock(w)
    \/ \E w \in WorkerIds : WriteCacheMemory(w)
    \/ \E w \in WorkerIds : WriteCacheFile(w)
    \/ \E w \in WorkerIds : WorkerSleep(w)

SpecFetch == InitFetch /\ [][NextFetch]_vars

\* ------------------------------------- requests for types not yet active
NextAdmit ==
    \/ \E t \in Reqs, c \in NewTypes : GetPokestops(t, c)
    \/ \E t \in Reqs : SctCheck(t)
    \/ \E t \in Reqs : InitializeCacheCheck(t)
    \/ \E t \in Reqs : SctStart(t)
    \/ \E t \in Reqs : SctAdd(t)
    \/ \E t \in Reqs : PageRender(t)
    \/ \E t \in Threads : AcquireCacheLock(t)
    \/ \E t \in Threads : ReadCacheBody(t)
    \/ \E t \in Threads : WriteCacheMemory(t)
    \/ \E t \in Threads : WriteCacheFile(t)
    \/ \E w \in WorkerIds : WorkerFetch(w)
    \/ \E w \in WorkerIds : WorkerSleep(w)

SpecAdmit == Init /\ [][NextAdmit]_vars

\* ------------------------------------------------------ GET /download_gpx
\* An export that activates its category as the page does.
DownloadGpxActivating(t, c) ==
    /\ t \in Reqs
    /\ th[t].pc = "idle"
    /\ \A u \in Reqs : u < t => th[u].pc # "idle"
    /\ ActiveTypesLockFree
    /\ active_types_lock' = t
    /\ th' = [th EXCEPT ![t] = [Idle EXCEPT !.pc = "sct_check", !.type = c,
                                            !.route = "/download_gpx"]]
    /\ UNCHANGED <<now, cache_dir, storeVars, active_types>>
    /\ UNCHANGED <<fetchVars, scraperVars, last_read, lock_table, process, temp_files, retryVars>>

\* download_gpx: validate_input gives the catalog key c and the handler calls
\* cache_manager.read_cache(c)
DownloadGpx(t, c) ==
    /\ t \in Reqs
    /\ th[t].pc = "idle"
    /\ \A u \in Reqs : u < t => th[u].pc # "idle"
    /\ th' = [th EXCEPT ![t] = [Idle EXCEPT !.pc = "rc_acquire", !.type = c,
                                            !.ret = "gpx_render",
                                            !.route = "/download_gpx"]]
    /\ UNCHANGED <<now, cache_dir, storeVars, active_types, active_types_lock>>
    /\ UNCHANGED <<fetchVars, scraperVars, last_read, lock_table, process, temp_files, retryVars>>

\* A stop that has no 'remaining_time' (a stop is written as its
\* remaining_time otherwise).
NoRemainingTime == -1

\* stop.get('remaining_time', 0)
StopRemainingTime(stop) == IF stop = NoRemainingTime THEN 0 ELSE stop

\* A filter that lets the threshold itself through.
AtOrOverThreshold(stop) == StopRemainingTime(stop) >= 600

\* if stop.get('remaining_time', 0) > 600
OverThreshold(stop) == StopRemainingTime(stop) > 600

\* for location, stops in data['stops'].items(): the stops over the threshold
\* of the first n locations, in the order of the locations and of their lists
RECURSIVE FilteredStops(_, _)
FilteredStops(d, n) ==
    IF n = 0 THEN <<>>
    ELSE FilteredStops(d, n - 1)
           \o (IF LocationList[n] \in DOMAIN d.stops
                 THEN SelectSeq(d.stops[LocationList[n]], OverThreshold)
                 ELSE <<>>)

\* What download_gpx sends for the dict it has read: a GPX file with a
\* waypoint per filtered stop, or the answer of its except clause when
\* data['stops'] raises.
GpxResponse(d) ==
    IF "stops" \in DOMAIN d /\ IsInstanceDict(d.stops)
      THEN [waypoints |-> FilteredStops(d, Len(LocationList))]
      ELSE [error |-> TRUE]

\* download_gpx after read_cache: the stops with more than 600 seconds left
\* become waypoints and the file is sent; a KeyError of data['stops'] is caught
\* by the handler's except clause.
GpxRender(t) ==
    /\ th[t].pc = "gpx_render"
    /\ th' = [th EXCEPT ![t] = [Idle EXCEPT !.pc = "done", !.type = th[t].type,
                                            !.route = "/download_gpx",
                                            !.res = GpxResponse(th[t].res),
                                            !.ok = "stops" \in DOMAIN th[t].res]]
    /\ UNCHANGED <<now, cache_dir, storeVars, active_types, active_types_lock>>
    /\ UNCHANGED <<fetchVars, scraperVars, last_read, lock_table, process, temp_files, retryVars>>

\* Page requests and exports in one process.
NextExport ==
    \/ \E t \in Reqs, c \in RequestedTypes : DownloadGpx(t, c)
    \/ \E t \in Reqs : GpxRender(t)
    \/ \E t \in Reqs, c \in RequestedTypes : GetPokestops(t, c)
    \/ \E t \in Reqs : SctCheck(t)
    \/ \E t \in Reqs : InitializeCacheCheck(t)
    \/ \E t \in Reqs : SctStart(t)
    \/ \E t \in Reqs : SctAdd(t)
    \/ \E t \in Reqs : PageRender(t)
    \/ \E t \in Threads : AcquireCacheLock(t)
    \/ \E t \in Threads : ReadCacheBody(t)
    \/ \E t \in Threads : WriteCacheMemory(t)
    \/ \E t \in Threads : WriteCacheFile(t)
    \/ \E w \in WorkerIds : WorkerFetch(w)
    \/ \E w \in WorkerIds : WorkerSleep(w)

SpecExport == Init /\ [][NextExport]_vars

\* ------------------------------------------- exports of a stored snapshot
\* The lists of a location in the snapshot an earlier run has left: stops at
\* the threshold and a second over it, one without 'remaining_time', stops
\* under and over the threshold, or none.
GpxLists == {<<>>, <<600, 601>>, <<NoRemainingTime, 900>>, <<400, 900>>}

GpxSnapshots ==
    {DictSet([stops |-> sbl, last_updated |-> "earlier"], "cache_metadata",
             CacheMetadata([stops |-> sbl], "ghost", 0)) : sbl \in [Locations -> GpxLists]}

\* The process starts over a cache directory that holds a ghost snapshot.
InitGpx ==
    /\ now = 0
    /\ cache_dir = TRUE
    /\ cache_locks = {}
    /\ lock_holder = [c \in Types |-> NoThread]
    /\ cache_memory = EmptyDict
    /\ last_fetch_times = EmptyDict
    /\ files \in {[c \in {"ghost"} |-> [decodes |-> TRUE, data |-> d]] : d \in GpxSnapshots}
    /\ active_types = {"fairy"}
    /\ active_types_lock = NoThread
    /\ th = [t \in Threads |-> IF t \in Reqs THEN Idle ELSE NotStarted]
    /\ write_seq = 0
    /\ written = EmptyDict
    /\ future = [l \in Locations |-> NoFuture]
    /\ stops_by_location = EmptyDict
    /\ NoScraper
    /\ last_read = EmptyDict
    /\ process = "running"
    /\ temp_files = EmptyDict
    /\ lock_table = NoLocks
    /\ NoRetry

NextGpx ==
    \/ \E t \in Reqs : DownloadGpx(t, "ghost")
    \/ \E t \in Threads : AcquireCacheLock(t)
    \/ \E t \in Threads : ReadCacheBody(t)
    \/ \E t \in Reqs : GpxRender(t)

SpecGpx == InitGpx /\ [][NextGpx]_vars

\* ---------------------------------- pages over a cache directory with files
\* The process starts with a cache directory that is empty or holds a file of
\* the pre-registered type left by an earlier run.
InitPage ==
    /\ now = 0
    /\ cache_dir = TRUE
    /\ cache_locks = {}
    /\ lock_holder = [c \in Types |-> NoThread]
    /\ cache_memory = EmptyDict
    /\ last_fetch_times = EmptyDict
    /\ files \in {EmptyDict} \cup {[c \in {"fairy"} |-> f] : f \in LeftoverFiles}
    /\ active_types = {"fairy"}
    /\ active_types_lock = NoThread
    /\ th = [t \in Threads |-> IF t \in Reqs THEN Idle ELSE NotStarted]
    /\ write_seq = 0
    /\ written = EmptyDict
    /\ future = [l \in Locations |-> NoFuture]
    /\ stops_by_location = EmptyDict
    /\ NoScraper
    /\ last_read = EmptyDict
    /\ process = "running"
    /\ temp_files = EmptyDict
    /\ lock_table = NoLocks
    /\ NoRetry

NextPage ==
    \/ \E t \in Reqs, c \in RequestedTypes : GetPokestops(t, c)
    \/ \E t \in Reqs : SctCheck(t)
    \/ \E t \in Reqs : InitializeCacheCheck(t)
    \/ \E t \in Reqs : SctStart(t)
    \/ \E t \in Reqs : SctAdd(t)
    \/ \E t \in Reqs : PageRender(t)
    \/ \E t \in Threads : AcquireCacheLock(t)
    \/ \E t \in Threads : ReadCacheBody(t)
    \/ \E t \in Threads : WriteCacheMemory(t)
    \/ \E t \in Threads : WriteCacheFile(t)
    \/ \E w \in WorkerIds : WorkerFetch(w)
    \/ \E w \in WorkerIds : WorkerSleep(w)

SpecPage == InitPage /\ [][NextPage]_vars

\* ------------------------------------ the cache directory shared by processes
\* gunicorn runs up to four worker processes of the application; each has its
\* own memory, locks and loops, and all of them write the files of one cache
\* directory.  A snapshot a loop of another process can write for type c.
OtherProcessSnapshots(c) ==
    {DictSet([stops |-> sbl, last_updated |-> Strftime(now)], "cache_metadata",
             CacheMetadata([stops |-> sbl], c, 0)) : sbl \in FanOutResults}

\* write_cache in another worker process, the part this process can see:
\* os.rename puts the snapshot in the file of the type.
OtherProcessWriteCache(c) ==
    /\ cache_dir
    /\ \E d \in OtherProcessSnapshots(c) :
          files' = DictSet(files, c, [decodes |-> TRUE, data |-> d])
    /\ UNCHANGED <<now, cache_dir, cache_locks, lock_holder, cache_memory, last_fetch_times,
                   write_seq, written, active_types, active_types_lock, th>>
    /\ UNCHANGED <<fetchVars, scraperVars, last_read, lock_table, process, temp_files, retryVars>>

NextShared ==
    \/ \E t \in Reqs, c \in RequestedTypes : GetPokestops(t, c)
    \/ \E t \in Reqs : SctCheck(t)
    \/ \E t \in Reqs : InitializeCacheCheck(t)
    \/ \E t \in Reqs : SctStart(t)
    \/ \E t \in Reqs : SctAdd(t)
    \/ \E t \in Reqs : PageRender(t)
    \/ \E t \in Threads : AcquireCacheLock(t)
    \/ \E t \in Threads : ReadCacheBody(t)
    \/ \E t \in Threads : WriteCacheMemory(t)
    \/ \E t \in Threads : WriteCacheFile(t)
    \/ \E w \in WorkerIds : WorkerFetch(w)
    \/ \E w \in WorkerIds : WorkerSleep(w)
    \/ \E c \in NewTypes : OtherProcessWriteCache(c)

SpecShared == InitPage /\ [][NextShared]_vars

\* ------------------------------------------------- the Lock objects
\* cleanup_old_memory_caches(max_age_minutes = 30)
MaxAgeMinutes == 30

\* A _get_cache_lock that goes on holding master_lock after it has returned.
MasterLockKept(t) == t

\* the end of "with self.master_lock": master_lock is free again
MasterLockLeft(t) == NoThread

\* "with self.master_lock" in _get_cache_lock and cleanup_old_memory_caches
MasterLockAcquire(t) ==
    /\ th[t].pc \in {"rc_acquire", "wc_acquire", "cl_acquire"}
    /\ th[t].cache_lock = 0
    /\ lock_table.master = NoThread
    /\ lock_table' = [lock_table EXCEPT !.master = t]
    /\ UNCHANGED <<now, cache_dir, storeVars, active_types, active_types_lock, th>>
    /\ UNCHANGED <<fetchVars, scraperVars, last_read, process, temp_files, retryVars>>

\* _get_cache_lock under master_lock: the Lock of the type is created if
\* cache_locks has none, and returned.
GetCacheLock(t) ==
    LET c == th[t].type
        fresh == c \notin DOMAIN lock_table.of
        object == IF fresh THEN Len(lock_table.owner) + 1 ELSE lock_table.of[c] IN
    /\ th[t].pc \in {"rc_acquire", "wc_acquire"}
    /\ lock_table.master = t
    /\ lock_table' = [of |-> DictSet(lock_table.of, c, object),
                      owner |-> IF fresh THEN Append(lock_table.owner, NoThread)
                                         ELSE lock_table.owner,
                      master |-> MasterLockLeft(t)]
    /\ cache_locks' = cache_locks \cup {c}
    /\ th' = [th EXCEPT ![t].cache_lock = object]
    /\ UNCHANGED <<now, cache_dir, lock_holder, cache_memory, last_fetch_times, files,
                   write_seq, written, active_types, active_types_lock>>
    /\ UNCHANGED <<fetchVars, scraperVars, last_read, process, temp_files, retryVars>>

\* "with cache_lock": the thread takes the Lock object it was given.
CacheLockAcquire(t) ==
    /\ th[t].pc \in {"rc_acquire", "wc_acquire"}
    /\ th[t].cache_lock # 0
    /\ lock_table.owner[th[t].cache_lock] = NoThread
    /\ lock_table' = [lock_table EXCEPT !.owner[th[t].cache_lock] = t]
    /\ th' = [th EXCEPT ![t].pc = IF th[t].pc = "rc_acquire" THEN "rc_body"
                                                             ELSE "wc_memory"]
    /\ UNCHANGED <<now, cache_dir, storeVars, active_types, active_types_lock>>
    /\ UNCHANGED <<fetchVars, scraperVars, last_read, process, temp_files, retryVars>>

\* GET /: the request reaches start_cache_thread(c), at "with active_types_lock".
StartCacheThreadCall(t, c) ==
    /\ t \in Reqs
    /\ th[t].pc = "idle"
    /\ \A u \in Reqs : u < t => th[u].pc # "idle"
    /\ th' = [th EXCEPT ![t] = [Idle EXCEPT !.pc = "sct_acquire", !.type = c]]
    /\ UNCHANGED <<now, cache_dir, storeVars, active_types, active_types_lock>>
    /\ UNCHANGED <<fetchVars, scraperVars, last_read, lock_table, process, temp_files, retryVars>>

\* "with active_types_lock": the thread takes the lock when it is free.
ActiveTypesLockAcquire(t) ==
    /\ th[t].pc = "sct_acquire"
    /\ ActiveTypesLockFree
    /\ active_types_lock' = t
    /\ th' = [th EXCEPT ![t].pc = "sct_check"]
    /\ UNCHANGED <<now, cache_dir, storeVars, active_types>>
    /\ UNCHANGED <<fetchVars, scraperVars, last_read, lock_table, process, temp_files, retryVars>>

\* A caller (a maintenance task) calls cleanup_old_memory_caches().
CleanupCall(t) ==
    /\ t \in Reqs
    /\ th[t].pc = "idle"
    /\ \A u \in Reqs : u < t => th[u].pc # "idle"
    /\ th' = [th EXCEPT ![t] = [Idle EXCEPT !.pc = "cl_acquire", !.ret = "done"]]
    /\ UNCHANGED <<now, cache_dir, storeVars, active_types, active_types_lock>>
    /\ UNCHANGED <<fetchVars, scraperVars, last_read, lock_table, process, temp_files, retryVars>>

\* The types whose last fetch is older than max_age_minutes.
ExpiredTypes == {c \in DOMAIN last_fetch_times : now - last_fetch_times[c] > MaxAgeMinutes}

\* d without the keys in ks
DictDelAll(d, ks) == [x \in (DOMAIN d) \ ks |-> d[x]]

\* cleanup_old_memory_caches under master_lock: the memory entry, the fetch
\* time and the Lock of every expired type are deleted.
CleanupOldMemoryCaches(t) ==
    /\ th[t].pc = "cl_acquire"
    /\ lock_table.master = t
    /\ cache_memory' = DictDelAll(cache_memory, ExpiredTypes)
    /\ last_fetch_times' = DictDelAll(last_fetch_times, ExpiredTypes)
    /\ cache_locks' = cache_locks \ ExpiredTypes
    /\ lock_table' = [lock_table EXCEPT !.of = DictDelAll(lock_table.of, ExpiredTypes),
                                        !.master = NoThread]
    /\ th' = [th EXCEPT ![t].pc = th[t].ret]
    /\ UNCHANGED <<now, cache_dir, lock_holder, files, write_seq, written, active_types,
                   active_types_lock>>
    /\ UNCHANGED <<fetchVars, scraperVars, last_read, process, temp_files, retryVars>>

\* The loop of ghost has failed to fetch for 35 minutes: its last snapshot is
\* older than max_age_minutes.  The store has been written MaxWrites - 1 times
\* (each time with the snapshot it still holds), and one more write is followed.
InitLocks ==
    /\ now = MaxAgeMinutes + FreshMinutes
    /\ cache_dir = TRUE
    /\ cache_locks = {"ghost"}
    /\ lock_holder = [c \in Types |-> NoThread]
    /\ cache_memory = [c \in {"ghost"} |-> SeedSnapshot(c)]
    /\ last_fetch_times = [c \in {"ghost"} |-> 0]
    /\ files = [c \in {"ghost"} |-> [decodes |-> TRUE, data |-> SeedSnapshot(c)]]
    /\ active_types = {"fairy", "ghost"}
    /\ active_types_lock = NoThread
    /\ th = [t \in Threads |->
               IF t \in Reqs THEN Idle
               ELSE IF t = FirstWorker THEN [Idle EXCEPT !.pc = "fetch", !.type = "ghost"]
               ELSE NotStarted]
    /\ write_seq = MaxWrites - 1
    /\ written = [k \in 1..(MaxWrites - 1) |-> SeedSnapshot("ghost")]
    /\ future = [l \in Locations |-> NoFuture]
    /\ stops_by_location = EmptyDict
    /\ NoScraper
    /\ last_read = [c \in {"ghost"} |-> 0]
    /\ process = "running"
    /\ temp_files = EmptyDict
    /\ lock_table = [of |-> [c \in {"ghost"} |-> 1], owner |-> <<NoThread>>,
                     master |-> NoThread]
    /\ NoRetry

NextLocks ==
    \/ \E t \in Reqs, c \in NewTypes : StartCacheThreadCall(t, c)
    \/ \E t \in Reqs : ActiveTypesLockAcquire(t)
    \/ \E t \in Reqs : SctCheck(t)
    \/ \E t \in Reqs : InitializeCacheCheck(t)
    \/ \E t \in Reqs : SctStart(t)
    \/ \E t \in Reqs : SctAdd(t)
    \/ \E t \in Reqs : PageRender(t)
    \/ \E t \in Reqs : CleanupCall(t)
    \/ \E t \in Threads : MasterLockAcquire(t)
    \/ \E t \in Threads : GetCacheLock(t)
    \/ \E t \in Threads : CacheLockAcquire(t)
    \/ \E t \in Reqs : CleanupOldMemoryCaches(t)
    \/ \E t \in Threads : ReadCacheBody(t)
    \/ \E t \in Threads : WriteCacheMemory(t)
    \/ \E t \in Threads : WriteCacheFile(t)
    \/ \E w \in WorkerIds : WorkerFetch(w)
    \/ \E w \in WorkerIds : WorkerSleep(w)

SpecLocks == InitLocks /\ [][NextLocks]_vars

\* -------------------------------------------------------------- GET /stats
\* get_stats starts "for pokestop_type in active_types", taking no lock; inside
\* the loop get_cache_stats reads cache_memory and last_fetch_times, taking no
\* lock either.
GetStats(t) ==
    /\ t \in Reqs
    /\ th[t].pc = "idle"
    /\ \A u \in Reqs : u < t => th[u].pc # "idle"
    /\ th' = [th EXCEPT ![t] = [Idle EXCEPT !.pc = "stats_iter",
                                            !.data = [seen |-> active_types]]]
    /\ UNCHANGED <<now, cache_dir, storeVars, active_types, active_types_lock>>
    /\ UNCHANGED <<fetchVars, scraperVars, last_read, lock_table, process, temp_files, retryVars>>

\* get_stats ends: the JSON response, or, when the set changed size during the
\* iteration, possibly a RuntimeError answered with status 500.
GetStatsReturn(t) ==
    /\ th[t].pc = "stats_iter"
    /\ \/ th' = [th EXCEPT ![t] = [Idle EXCEPT !.pc = "done"]]
       \/ /\ active_types # th[t].data.seen
          /\ th' = [th EXCEPT ![t] = [Idle EXCEPT !.pc = "done", !.ok = FALSE]]
    /\ UNCHANGED <<now, cache_dir, storeVars, active_types, active_types_lock>>
    /\ UNCHANGED <<fetchVars, scraperVars, last_read, lock_table, process, temp_files, retryVars>>

NextStats ==
    \/ \E t \in Reqs, c \in RequestedTypes : GetPokestops(t, c)
    \/ \E t \in Reqs : GetStats(t)
    \/ \E t \in Reqs : GetStatsReturn(t)
    \/ \E t \in Reqs : SctCheck(t)
    \/ \E t \in Reqs : InitializeCacheCheck(t)
    \/ \E t \in Reqs : SctStart(t)
    \/ \E t \in Reqs : SctAdd(t)
    \/ \E t \in Reqs : PageRender(t)
    \/ \E t \in Threads : AcquireCacheLock(t)
    \/ \E t \in Threads : ReadCacheBody(t)
    \/ \E t \in Threads : WriteCacheMemory(t)
    \/ \E t \in Threads : WriteCacheFile(t)
    \/ \E w \in WorkerIds : WorkerFetch(w)
    \/ \E w \in WorkerIds : WorkerSleep(w)

SpecStats == Init /\ [][NextStats]_vars

\* ------------------------------------------------ the refresh loop in time
UPDATE_INTERVAL == 120
MaxIdleMinutes == 8

\* time.sleep(config.UPDATE_INTERVAL) with the clock: the loop is back at its
\* next cycle UPDATE_INTERVAL seconds later.
TimeSleep(w) ==
    /\ w \in WorkerIds
    /\ th[w].pc = "sleep"
    /\ now < MaxIdleMinutes
    /\ now' = now + (UPDATE_INTERVAL \div 60)
    /\ th' = [th EXCEPT ![w] = [Idle EXCEPT !.pc = "fetch", !.type = th[w].type]]
    /\ UNCHANGED <<cache_dir, storeVars, active_types, active_types_lock>>
    /\ UNCHANGED <<fetchVars, scraperVars, last_read, lock_table, process, temp_files, retryVars>>

\* The loop of a category that was activated and is not requested again.
NextCadence ==
    \/ \E w \in WorkerIds : WorkerFetch(w)
    \/ \E w \in WorkerIds : AcquireCacheLock(w)
    \/ \E w \in WorkerIds : WriteCacheMemory(w)
    \/ \E w \in WorkerIds : WriteCacheFile(w)
    \/ \E w \in WorkerIds : TimeSleep(w)

SpecCadence == InitFetch /\ [][NextCadence]_vars

\* ------------------------------------------------------ process shutdown
\* The server process is asked to terminate (INT, QUIT or TERM): the hook logs
\* it and the process has graceful_timeout to finish.  Nothing in app.py is
\* told: no module state changes.
ShutdownRequested ==
    /\ process = "running"
    /\ temp_files = EmptyDict
    /\ lock_table = NoLocks
    /\ process' = "stopping"
    /\ UNCHANGED <<now, cache_dir, storeVars, active_types, active_types_lock, th>>
    /\ UNCHANGED <<fetchVars, scraperVars, last_read, lock_table, temp_files, retryVars>>

\* The interpreter exits: the loops are daemon threads, abandoned wherever
\* they are.
ProcessExit ==
    /\ process = "stopping"
    /\ process' = "exited"
    /\ UNCHANGED <<now, cache_dir, storeVars, active_types, active_types_lock, th>>
    /\ UNCHANGED <<fetchVars, scraperVars, last_read, lock_table, temp_files, retryVars>>

\* A refresh loop in a process that can be asked to terminate at any moment.
NextShutdown ==
    \/ \E w \in WorkerIds : process # "exited" /\ WorkerFetch(w)
    \/ \E w \in WorkerIds : process # "exited" /\ AcquireCacheLock(w)
    \/ \E w \in WorkerIds : process # "exited" /\ WriteCacheMemory(w)
    \/ \E w \in WorkerIds : process # "exited" /\ WriteCacheFile(w)
    \/ \E w \in WorkerIds : process # "exited" /\ TimeSleep(w)
    \/ ShutdownRequested
    \/ ProcessExit

SpecShutdown == InitFetch /\ [][NextShutdown]_vars

\* ------------------------------------------------------ retry_on_failure
RETRY_ATTEMPTS == 3
RETRY_DELAY == 2

\* How one call of fetch_location_data can fail.  Every kind is logged and
\* raised again by the function's except clauses.
TransientFailures == {"Timeout", "ConnectionError", "HTTPError"}
NonTransientFailures == {"JSONDecodeError", "AttributeError"}
Failures == TransientFailures \cup NonTransientFailures

\* return func(*args, **kwargs): the wrapped call returns its list.
AttemptReturns ==
    /\ retry_pc = "call"
    /\ \E result \in StopLists : retry_result' = result
    /\ outcomes' = Append(outcomes, "ok")
    /\ retry_pc' = "returned"
    /\ UNCHANGED <<now, cache_dir, storeVars, active_types, active_types_lock, th,
                   fetchVars, scraperVars, last_read, lock_table, process, temp_files, attempt, last_exception, sleeps>>

\* except Exception as e: last_exception = e
AttemptRaises ==
    /\ retry_pc = "call"
    /\ \E e \in Failures :
          /\ last_exception' = e
          /\ outcomes' = Append(outcomes, e)
    /\ retry_pc' = "except"
    /\ UNCHANGED <<now, cache_dir, storeVars, active_types, active_types_lock, th,
                   fetchVars, scraperVars, last_read, lock_table, process, temp_files, attempt, sleeps, retry_result>>

\* A wrapper that sleeps after every failed attempt.
BackoffAfterEveryAttempt(a) == a < RETRY_ATTEMPTS

\* if attempt < max_retries - 1
ShouldBackoff(a) == a < RETRY_ATTEMPTS - 1

\* sleep_time = delay * (2 ** attempt); time.sleep(sleep_time); next attempt
Backoff ==
    /\ retry_pc = "except"
    /\ ShouldBackoff(attempt)
    /\ sleeps' = Append(sleeps, RETRY_DELAY * (2 ^ attempt))
    /\ attempt' = attempt + 1
    /\ retry_pc' = "call"
    /\ UNCHANGED <<now, cache_dir, storeVars, active_types, active_types_lock, th,
                   fetchVars, scraperVars, last_read, lock_table, process, temp_files, last_exception, outcomes,
                   retry_result>>

\* The loop is exhausted: raise last_exception
RaiseLast ==
    /\ retry_pc = "except"
    /\ ~ShouldBackoff(attempt)
    /\ retry_pc' = "raised"
    /\ UNCHANGED <<now, cache_dir, storeVars, active_types, active_types_lock, th,
                   fetchVars, scraperVars, last_read, lock_table, process, temp_files, attempt, last_exception, sleeps,
                   outcomes, retry_result>>

\* A future of the fan-out enters the wrapper of fetch_location_data.
InitRetry ==
    /\ now = 0
    /\ cache_dir = TRUE
    /\ cache_locks = {}
    /\ lock_holder = [c \in Types |-> NoThread]
    /\ cache_memory = EmptyDict
    /\ last_fetch_times = EmptyDict
    /\ files = EmptyDict
    /\ active_types = {"fairy"}
    /\ active_types_lock = NoThread
    /\ th = [t \in Threads |-> IF t \in Reqs THEN Idle ELSE NotStarted]
    /\ write_seq = 0
    /\ written = EmptyDict
    /\ future = [l \in Locations |-> NoFuture]
    /\ stops_by_location = EmptyDict
    /\ NoScraper
    /\ last_read = EmptyDict
    /\ process = "running"
    /\ temp_files = EmptyDict
    /\ lock_table = NoLocks
    /\ attempt = 0
    /\ last_exception = "none"
    /\ sleeps = <<>>
    /\ outcomes = <<>>
    /\ retry_result = <<>>
    /\ retry_pc = "call"

NextRetry ==
    \/ AttemptReturns
    \/ AttemptRaises
    \/ Backoff
    \/ RaiseLast

SpecRetry == InitRetry /\ [][NextRetry]_vars

\* --------------------------------------------------------------- scraper
MaxInvasions == 2
MIN_REMAINING_TIME == 180
MAX_REMAINING_TIME == 7200

\* time.time() when fetch_location_data starts, in whole seconds.
BaseTime == 10000

\* Text is a sequence of characters.
UpperCase == <<"A", "B", "C", "D", "E", "F", "G", "H", "I", "J", "K", "L", "M",
              "N", "O", "P", "Q", "R", "S", "T", "U", "V", "W", "X", "Y", "Z">>
LowerCase == <<"a", "b", "c", "d", "e", "f", "g", "h", "i", "j", "k", "l", "m",
              "n", "o", "p", "q", "r", "s", "t", "u", "v", "w", "x", "y", "z">>

\* str.lower()
Lower(s) ==
    [i \in 1..Len(s) |->
        IF \E k \in 1..Len(UpperCase) : UpperCase[k] = s[i]
        THEN LowerCase[CHOOSE k \in 1..Len(UpperCase) : UpperCase[k] = s[i]]
        ELSE s[i]]

\* sub in s
Contains(sub, s) ==
    \E i \in 0..(Len(s) - Len(sub)) : SubSeq(s, i + 1, i + Len(sub)) = sub

\* s.startswith(prefix)
StartsWith(s, prefix) ==
    Len(prefix) <= Len(s) /\ SubSeq(s, 1, Len(prefix)) = prefix

\* dict.get(key, default)
DictGet(d, key, default) == IF key \in DOMAIN d THEN d[key] ELSE default

\* The catalog entries the scrapers are built from.
ScraperTypes == {"electric", "ghost"}
TypeName == [electric |-> <<"e", "l", "e", "c", "t", "r", "i", "c">>,
             ghost |-> <<"g", "h", "o", "s", "t">>,
             gruntmale |-> <<"g", "r", "u", "n", "t", "m", "a", "l", "e">>,
             psychic |-> <<"p", "s", "y", "c", "h", "i", "c">>]
CharacterIds == [electric |-> {48, 49}, ghost |-> {47, 48}, gruntmale |-> {4},
                 psychic |-> {34, 35}]
DisplayType == [electric |-> "Electric", ghost |-> "Ghost", gruntmale |-> "Grunt",
                psychic |-> "Psychic"]

Grunt == <<"g", "r", "u", "n", "t">>
Water == <<"w", "a", "t", "e", "r">>
electric_keywords == {<<"s", "h", "o", "c", "k">>, <<"e", "l", "e", "c", "t", "r", "i", "c">>,
                      <<"v", "o", "l", "t">>, <<"c", "h", "a", "r", "g", "e">>,
                      <<"z", "a", "p">>, <<"t", "h", "u", "n", "d", "e", "r">>}
GhostPatterns == {<<"k", "e", ".", ".", ".", "k", "e", ".", ".", ".">>,
                  <<"g", "h", "o", "s", "t">>}
PsychicPatterns == {<<"p", "s", "y", "c", "h", "i", "c">>, <<"m", "i", "n", "d">>,
                    <<"t", "e", "l", "e", "k", "i", "n", "e", "s", "i", "s">>}
FightingPatterns == {<<"m", "u", "s", "c", "l", "e">>, <<"f", "i", "g", "h", "t", "i", "n", "g">>,
                     <<"c", "o", "m", "b", "a", "t">>}

\* A coordinate is written as a whole number of units of 1e-7 degree, one
\* decimal place more than round(float(...), 6) keeps: this is one degree.
Degree == 10000000

\* A check that lets every pair of coordinates through.
AnyCoordinates(lat, lng) == TRUE

\* not (-90 <= lat <= 90) or not (-180 <= lng <= 180): return False
CoordinatesInRange(lat, lng) ==
    /\ -90 * Degree <= lat /\ lat <= 90 * Degree
    /\ -180 * Degree <= lng /\ lng <= 180 * Degree

\* The required fields are present, float(stop['lat']) and float(stop['lng'])
\* are within range; invasion_end is not in the past of the local clock and at
\* most MAX_REMAINING_TIME ahead of it.
ValidateStopData(stop, local_time) ==
    /\ {"lat", "lng", "invasion_end", "character"} \subseteq DOMAIN stop
    /\ CoordinatesInRange(stop.lat, stop.lng)
    /\ ~(stop.invasion_end < local_time
           \/ stop.invasion_end > local_time + MAX_REMAINING_TIME)

IsGruntMatch(c, grunt_dialogue) ==
    StartsWith(TypeName[c], Grunt) /\ Contains(Grunt, grunt_dialogue)

IsTypeDialogueMatch(c, grunt_dialogue) ==
    IF StartsWith(TypeName[c], Grunt) THEN FALSE
    ELSE IF c \in {"waterfemale", "watermale"} THEN Contains(Water, grunt_dialogue)
    ELSE IF c = "ghost" THEN \E pattern \in GhostPatterns : Contains(pattern, grunt_dialogue)
    ELSE IF c = "psychic" THEN \E pattern \in PsychicPatterns : Contains(pattern, grunt_dialogue)
    ELSE IF c = "fighting" THEN \E pattern \in FightingPatterns : Contains(pattern, grunt_dialogue)
    ELSE Contains(Lower(TypeName[c]), grunt_dialogue)

IsElectricMatch(c, character_id, grunt_dialogue) ==
    IF c = "electric" /\ character_id \in {48, 49}
    THEN \E keyword \in electric_keywords : Contains(keyword, grunt_dialogue)
    ELSE FALSE

\* A window that lets the boundary values in.
InWindowInclusive(remaining_time) ==
    MIN_REMAINING_TIME <= remaining_time /\ remaining_time <= MAX_REMAINING_TIME

\* config.MIN_REMAINING_TIME < remaining_time < config.MAX_REMAINING_TIME
InWindow(remaining_time) ==
    MIN_REMAINING_TIME < remaining_time /\ remaining_time < MAX_REMAINING_TIME

RemainingTime(stop, now_time, time_offset) ==
    stop.invasion_end - (now_time - time_offset)

IsValidStop(c, stop, now_time, time_offset) ==
    IF ~ValidateStopData(stop, now_time) THEN FALSE
    ELSE LET character_id == stop.character
             grunt_dialogue == Lower(DictGet(stop, "grunt_dialogue", <<>>))
         IN  IF ~InWindow(RemainingTime(stop, now_time, time_offset)) THEN FALSE
             ELSE \/ character_id \in CharacterIds[c]
                  \/ IsGruntMatch(c, grunt_dialogue)
                  \/ IsTypeDialogueMatch(c, grunt_dialogue)
                  \/ IsElectricMatch(c, character_id, grunt_dialogue)

Max(a, b) == IF a >= b THEN a ELSE b

CreateStopData(c, stop, now_time, time_offset) ==
    [lat |-> stop.lat,
     lng |-> stop.lng,
     remaining_time |-> Max(0, RemainingTime(stop, now_time, time_offset)),
     character |-> stop.character,
     type |-> DisplayType[c],
     grunt_dialogue |-> DictGet(stop, "grunt_dialogue", <<>>)]

\* time_offset = current_time - int(meta.get('time', current_time))
TimeOffset(m, now_time) == now_time - DictGet(m, "time", now_time)

\* round(x, 6) of a coordinate: the nearest multiple of 1e-6 degree (a value
\* halfway between two goes to the even one).
Round6(x) ==
    LET r == x % 10
        down == x - r IN
    IF r < 5 THEN down
    ELSE IF r > 5 THEN down + 10
    ELSE IF (down \div 10) % 2 = 0 THEN down ELSE down + 10

\* An identifier made of the coordinates as they are.
ExactIdentifier(stop) == <<stop.lat, stop.lng, stop.character>>

\* identifier = (round(float(stop['lat']), 6), round(float(stop['lng']), 6),
\*               stop['character'])
Identifier(stop) == <<Round6(stop.lat), Round6(stop.lng), stop.character>>

\* stop['lat'], stop['lng'] and stop['character'] raise no KeyError
HasIdentifier(stop) == {"lat", "lng", "character"} \subseteq DOMAIN stop

\* deduplicate_stops: the first stop of every identifier is kept, in order; a
\* stop that has no identifier is skipped.
DeduplicateStops(list) ==
    LET Keep == {i \in 1..Len(list) :
                    /\ HasIdentifier(list[i])
                    /\ \A j \in 1..(i - 1) :
                          HasIdentifier(list[j]) => Identifier(list[j]) # Identifier(list[i])}
        Nth(n) == CHOOSE i \in Keep : Cardinality({j \in Keep : j < i}) = n - 1
    IN  [n \in 1..Cardinality(Keep) |-> list[Nth(n)]]

\* What a feed may carry in 'grunt_dialogue'.
Dialogues == {<<"V", "o", "l", "t">>, <<"K", "e", ".", ".", ".", "k", "e", ".", ".", ".">>,
              <<"H", "e", "y">>}

\* The raw records of a feed: well-formed ones around the edges of the time
\* window, one without coordinates and one with a latitude out of range.
RawRecords ==
    {[lat |-> 40 * Degree, lng |-> 40 * Degree, invasion_end |-> BaseTime + r, character |-> id,
      grunt_dialogue |-> d] :
        r \in {MIN_REMAINING_TIME, MIN_REMAINING_TIME + 1,
               MAX_REMAINING_TIME - 1, MAX_REMAINING_TIME},
        id \in {14, 48}, d \in Dialogues}
      \cup {[invasion_end |-> BaseTime + 900, character |-> 48],
            [lat |-> 91 * Degree, lng |-> 40 * Degree, invasion_end |-> BaseTime + 900, character |-> 48]}

Feeds == UNION {[1..n -> RawRecords] : n \in 0..MaxInvasions}

\* The feed's clock: not reported, or a second behind the local one.
Metas == {EmptyDict, [time |-> BaseTime - 1]}

\* for stop in invasions: the next record is tested and, if valid, appended.
ProcessInvasion ==
    /\ scraper_pc = "loop"
    /\ Len(accepted) < Len(invasions)
    /\ LET stop == invasions[Len(accepted) + 1]
           time_offset == TimeOffset(meta, current_time)
           valid == IsValidStop(pokestop_type, stop, current_time, time_offset)
       IN  /\ accepted' = Append(accepted, valid)
           /\ stops' = IF valid
                       THEN Append(stops, CreateStopData(pokestop_type, stop,
                                                         current_time, time_offset))
                       ELSE stops
    /\ UNCHANGED <<now, cache_dir, storeVars, active_types, active_types_lock, th,
                   fetchVars, retryVars, last_read, lock_table, process, temp_files, pokestop_type, current_time, meta, invasions,
                   scraper_pc>>

\* The loop is over: duplicates are removed and the list is returned.
ProcessInvasionsReturn ==
    /\ scraper_pc = "loop"
    /\ Len(accepted) = Len(invasions)
    /\ stops' = DeduplicateStops(stops)
    /\ scraper_pc' = "done"
    /\ UNCHANGED <<now, cache_dir, storeVars, active_types, active_types_lock, th,
                   fetchVars, retryVars, last_read, lock_table, process, temp_files, pokestop_type, current_time, meta, invasions,
                   accepted>>

\* A scraper of a refresh loop has received a response.
InitScraper ==
    /\ now = 0
    /\ cache_dir = TRUE
    /\ cache_locks = {}
    /\ lock_holder = [c \in Types |-> NoThread]
    /\ cache_memory = EmptyDict
    /\ last_fetch_times = EmptyDict
    /\ files = EmptyDict
    /\ active_types = {"fairy"}
    /\ active_types_lock = NoThread
    /\ th = [t \in Threads |-> IF t \in Reqs THEN Idle ELSE NotStarted]
    /\ write_seq = 0
    /\ written = EmptyDict
    /\ future = [l \in Locations |-> NoFuture]
    /\ stops_by_location = EmptyDict
    /\ pokestop_type \in ScraperTypes
    /\ current_time = BaseTime
    /\ meta \in Metas
    /\ invasions \in Feeds
    /\ stops = <<>>
    /\ accepted = <<>>
    /\ scraper_pc = "loop"
    /\ last_read = EmptyDict
    /\ process = "running"
    /\ temp_files = EmptyDict
    /\ lock_table = NoLocks
    /\ NoRetry

NextScraper ==
    \/ ProcessInvasion
    \/ ProcessInvasionsReturn

SpecScraper == InitScraper /\ [][NextScraper]_vars

\* ------------------------------------------ a feed whose clock differs
\* The feed's clock as meta['time'] reports it: five minutes behind the local
\* clock, equal to it, or five minutes ahead of it.
SkewMetas == {[time |-> BaseTime - 300], [time |-> BaseTime], [time |-> BaseTime + 300]}

\* Well-formed records that end 200 s, 900 s and 7400 s after the local time
\* of the fetch.
SkewRecords ==
    {[lat |-> 40 * Degree, lng |-> 40 * Degree, invasion_end |-> BaseTime + r, character |-> id] :
        r \in {200, 900, 7400}, id \in {14, 48}}

SkewFeeds == UNION {[1..n -> SkewRecords] : n \in 0..MaxInvasions}

InitSkew ==
    /\ now = 0
    /\ cache_dir = TRUE
    /\ cache_locks = {}
    /\ lock_holder = [c \in Types |-> NoThread]
    /\ cache_memory = EmptyDict
    /\ last_fetch_times = EmptyDict
    /\ files = EmptyDict
    /\ active_types = {"fairy"}
    /\ active_types_lock = NoThread
    /\ th = [t \in Threads |-> IF t \in Reqs THEN Idle ELSE NotStarted]
    /\ write_seq = 0
    /\ written = EmptyDict
    /\ future = [l \in Locations |-> NoFuture]
    /\ stops_by_location = EmptyDict
    /\ pokestop_type \in ScraperTypes
    /\ current_time = BaseTime
    /\ meta \in SkewMetas
    /\ invasions \in SkewFeeds
    /\ stops = <<>>
    /\ accepted = <<>>
    /\ scraper_pc = "loop"
    /\ last_read = EmptyDict
    /\ process = "running"
    /\ temp_files = EmptyDict
    /\ lock_table = NoLocks
    /\ NoRetry

SpecSkew == InitSkew /\ [][NextScraper]_vars

\* --------------------------------------------------- deduplicate_stops
\* Stops a caller may hand to deduplicate_stops: at three latitudes of which
\* two agree to six decimal places, with two identifiers, and stops that lack
\* 'lat' or 'character'.
DedupStops ==
    {[lat |-> 40 * Degree + e, lng |-> 40 * Degree, character |-> id] :
        e \in {1, 4, 12}, id \in {4, 48}}
      \cup {[lng |-> 40 * Degree, character |-> 48], [lat |-> 40 * Degree, lng |-> 40 * Degree]}

DedupInputs == UNION {[1..n -> DedupStops] : n \in 0..(MaxInvasions + 1)}

\* unique_stops = deduplicate_stops(stops)
DeduplicateOnce ==
    /\ scraper_pc = "call"
    /\ stops' = DeduplicateStops(invasions)
    /\ scraper_pc' = "once"
    /\ UNCHANGED <<now, cache_dir, storeVars, active_types, active_types_lock, th,
                   fetchVars, retryVars, last_read, lock_table, process, temp_files,
                   pokestop_type, current_time, meta, invasions, accepted>>

\* deduplicate_stops applied to its own result
DeduplicateAgain ==
    /\ scraper_pc = "once"
    /\ stops' = DeduplicateStops(stops)
    /\ scraper_pc' = "twice"
    /\ UNCHANGED <<now, cache_dir, storeVars, active_types, active_types_lock, th,
                   fetchVars, retryVars, last_read, lock_table, process, temp_files,
                   pokestop_type, current_time, meta, invasions, accepted>>

InitDedup ==
    /\ now = 0
    /\ cache_dir = TRUE
    /\ cache_locks = {}
    /\ lock_holder = [c \in Types |-> NoThread]
    /\ cache_memory = EmptyDict
    /\ last_fetch_times = EmptyDict
    /\ files = EmptyDict
    /\ active_types = {"fairy"}
    /\ active_types_lock = NoThread
    /\ th = [t \in Threads |-> IF t \in Reqs THEN Idle ELSE NotStarted]
    /\ write_seq = 0
    /\ written = EmptyDict
    /\ future = [l \in Locations |-> NoFuture]
    /\ stops_by_location = EmptyDict
    /\ pokestop_type = "ghost"
    /\ current_time = BaseTime
    /\ meta = EmptyDict
    /\ invasions \in DedupInputs
    /\ stops = <<>>
    /\ accepted = <<>>
    /\ scraper_pc = "call"
    /\ last_read = EmptyDict
    /\ process = "running"
    /\ temp_files = EmptyDict
    /\ lock_table = NoLocks
    /\ NoRetry

NextDedup ==
    \/ DeduplicateOnce
    \/ DeduplicateAgain

SpecDedup == InitDedup /\ [][NextDedup]_vars

\* ------------------------------------------------------- validate_input
\* The text of the catalog keys the requests can name.
KeyText == [fairy |-> <<"f", "a", "i", "r", "y">>,
            ghost |-> TypeName.ghost,
            electric |-> TypeName.electric]

\* str.strip(): the text without its leading and trailing blanks
Strip(s) ==
    LET Inked == {i \in 1..Len(s) : s[i] # " "} IN
    IF Inked = {} THEN <<>>
    ELSE SubSeq(s, CHOOSE i \in Inked : \A j \in Inked : i <= j,
                   CHOOSE i \in Inked : \A j \in Inked : i >= j)

\* What validate_input can be given: None, a value that is no string, and
\* strings: empty, blank, keys as they are, in capitals or between blanks, and
\* a text that is no key.
RawTypes ==
    {[none |-> TRUE], [int |-> 7]}
      \cup {[str |-> s] : s \in {<<>>, <<" ">>, <<"f", "a", "i", "r", "y">>,
                                 <<" ", "G", "h", "o", "s", "t", " ">>,
                                 <<"E", "L", "E", "C", "T", "R", "I", "C">>,
                                 <<"g", "h", "o", "s", "t", "s">>}}

\* isinstance(pokestop_type, str)
IsInstanceStr(raw) == "str" \in DOMAIN raw

\* TypeManager.validate_type: type_name in POKESTOP_TYPES
ValidateType(text) == \E c \in DOMAIN KeyText : KeyText[c] = text

\* A validate_input that looks the text up as it came.
ValidateInputAsGiven(raw) ==
    IF ~IsInstanceStr(raw) \/ raw.str = <<>> THEN "fairy"
    ELSE IF ~ValidateType(raw.str) THEN "fairy"
    ELSE CHOOSE c \in DOMAIN KeyText : KeyText[c] = raw.str

\* validate_input
ValidateInput(raw) ==
    IF ~IsInstanceStr(raw) \/ raw.str = <<>> THEN "fairy"
    ELSE LET text == Strip(Lower(raw.str)) IN
         IF ~ValidateType(text) THEN "fairy"
         ELSE CHOOSE c \in DOMAIN KeyText : KeyText[c] = text

\* GET /: a request arrives with its 'type' argument.
RequestArrives(t, raw) ==
    /\ t \in Reqs
    /\ th[t].pc = "idle"
    /\ \A u \in Reqs : u < t => th[u].pc # "idle"
    /\ th' = [th EXCEPT ![t] = [Idle EXCEPT !.pc = "validate", !.data = raw]]
    /\ UNCHANGED <<now, cache_dir, storeVars, active_types, active_types_lock>>
    /\ UNCHANGED <<fetchVars, scraperVars, last_read, lock_table, process, temp_files, retryVars>>

\* get_pokestops: pokestop_type = validate_input(...), and start_cache_thread
\* enters "with active_types_lock".
GetPokestopsValidated(t) ==
    /\ th[t].pc = "validate"
    /\ ActiveTypesLockFree
    /\ active_types_lock' = t
    /\ th' = [th EXCEPT ![t] = [Idle EXCEPT !.pc = "sct_check",
                                            !.type = ValidateInput(th[t].data)]]
    /\ UNCHANGED <<now, cache_dir, storeVars, active_types>>
    /\ UNCHANGED <<fetchVars, scraperVars, last_read, lock_table, process, temp_files, retryVars>>

\* The requests, from the argument to the page.  A loop that is started stays
\* at its first fetch: its cycles are followed in Spec.
NextInput ==
    \/ \E t \in Reqs, raw \in RawTypes : RequestArrives(t, raw)
    \/ \E t \in Reqs : GetPokestopsValidated(t)
    \/ \E t \in Reqs : SctCheck(t)
    \/ \E t \in Reqs : InitializeCacheCheck(t)
    \/ \E t \in Reqs : SctStart(t)
    \/ \E t \in Reqs : SctAdd(t)
    \/ \E t \in Reqs : PageRender(t)
    \/ \E t \in Threads : AcquireCacheLock(t)
    \/ \E t \in Threads : ReadCacheBody(t)
    \/ \E t \in Threads : WriteCacheMemory(t)
    \/ \E t \in Threads : WriteCacheFile(t)

SpecInput == Init /\ [][NextInput]_vars

\* ------------------------------------- matching by the text of the record
\* A generic-label category and a category with a keyword of its own.
MatchTypes == {"gruntmale", "psychic"}

MatchDialogues == {<<"G", "r", "u", "n", "t", "!">>, <<"m", "i", "n", "d">>,
                   <<"P", "s", "y", "c", "h", "i", "c">>, <<"H", "e", "y">>}

\* Records well inside the time window: with an identifier of one of the two
\* categories or of neither, and without the 'character' field.
MatchRecords ==
    {[lat |-> 40 * Degree, lng |-> 40 * Degree, invasion_end |-> BaseTime + 900, character |-> id,
      grunt_dialogue |-> d] : id \in {4, 34, 99}, d \in MatchDialogues}
      \cup {[lat |-> 40 * Degree, lng |-> 40 * Degree, invasion_end |-> BaseTime + 900,
             grunt_dialogue |-> d] : d \in MatchDialogues}

MatchFeeds == UNION {[1..n -> MatchRecords] : n \in 0..MaxInvasions}

InitMatch ==
    /\ now = 0
    /\ cache_dir = TRUE
    /\ cache_locks = {}
    /\ lock_holder = [c \in Types |-> NoThread]
    /\ cache_memory = EmptyDict
    /\ last_fetch_times = EmptyDict
    /\ files = EmptyDict
    /\ active_types = {"fairy"}
    /\ active_types_lock = NoThread
    /\ th = [t \in Threads |-> IF t \in Reqs THEN Idle ELSE NotStarted]
    /\ write_seq = 0
    /\ written = EmptyDict
    /\ future = [l \in Locations |-> NoFuture]
    /\ stops_by_location = EmptyDict
    /\ pokestop_type \in MatchTypes
    /\ current_time = BaseTime
    /\ meta \in Metas
    /\ invasions \in MatchFeeds
    /\ stops = <<>>
    /\ accepted = <<>>
    /\ scraper_pc = "loop"
    /\ last_read = EmptyDict
    /\ process = "running"
    /\ temp_files = EmptyDict
    /\ lock_table = NoLocks
    /\ NoRetry

SpecMatch == InitMatch /\ [][NextScraper]_vars

\* ------------------------------------------------------------------ claims
InWriteCache(t) == th[t].pc \in {"wc_acquire", "wc_memory", "wc_file"}
Returned(t) == th[t].pc \in {"init_check", "page_render"}

\* C1: at most one refresh loop exists per category, and no two refresh-loop
\* writes for one category are in flight together.
C1_AtMostOneLoop ==
    \A c \in Types :
        /\ Cardinality(Loops(c)) <= 1
        /\ Cardinality({w \in Loops(c) : InWriteCache(w)}) <= 1

\* Two requests for the same cold category have both passed start_cache_thread
\* and the category's loop is writing.
C1_Witness ==
    \E t, u \in Reqs :
        /\ t # u
        /\ th[t].type = "ghost" /\ th[u].type = "ghost"
        /\ th[t].pc = "page_render" /\ th[u].pc = "page_render"
        /\ \E w \in Loops("ghost") : th[w].pc = "wc_file"

\* A whole snapshot: the empty template, or what one write stored, its lists
\* possibly in display order.
WholeSnapshot(d) ==
    IF "cache_metadata" \in DOMAIN d
      THEN /\ d.cache_metadata.write_time \in DOMAIN written
           /\ SortInPlace(d) = SortInPlace(written[d.cache_metadata.write_time])
      ELSE \E t \in 0..now : d = GetEmptyCache(t)

\* C2: what read_cache returns is one whole snapshot (stops, last_updated and
\* metadata of the same write), also when a write for the category is in flight.
C2_ReadIsWhole ==
    \A t \in Threads : Returned(t) => WholeSnapshot(th[t].res)

\* A read has returned the snapshot of a refresh cycle while the next write of
\* the same category is in flight.
C2_Witness ==
    \E t \in Reqs, w \in WorkerIds :
        /\ th[t].pc = "page_render"
        /\ th[w].type = th[t].type
        /\ th[w].pc = "wc_file"
        /\ "cache_metadata" \in DOMAIN th[t].res
        /\ th[t].res.cache_metadata.write_time > 0
        /\ th[t].res # cache_memory[th[t].type]

StampsOf(c) == {k \in DOMAIN written : written[k].cache_metadata.pokestop_type = c}
LatestStamp(c) == CHOOSE k \in StampsOf(c) : \A j \in StampsOf(c) : j <= k

\* C4: once a write for a category has succeeded, every read of the category
\* returns the snapshot of the latest successful write.
C4_ReadReturnsLastWrite ==
    [][\A t \in Threads :
         (th[t].pc = "rc_body" /\ th'[t].pc # "rc_body" /\ StampsOf(th[t].type) # {})
            => th'[t].res = written[LatestStamp(th[t].type)]]_vars

\* C5: a GET / whose start_cache_thread has returned leaves exactly one refresh
\* loop for its category.
C5_ExactlyOneLoopAfterGet ==
    \A t \in Reqs :
        (th[t].ret = "page_render" /\ th[t].pc \in {"rc_acquire", "rc_body", "page_render"})
            => Cardinality(Loops(th[t].type)) = 1

NeverWritten(c) == c \notin DOMAIN cache_memory /\ c \notin DOMAIN files

\* C6: a read of a category that was never written returns last_updated
\* "Unknown" and an empty list for every configured location.
C6_ColdReadIsUnknownTemplate ==
    \A t \in Threads :
        (Returned(t) /\ NeverWritten(th[t].type))
            => /\ th[t].res.last_updated = "Unknown"
               /\ DOMAIN th[t].res.stops = Locations
               /\ \A l \in Locations : th[t].res.stops[l] = <<>>

\* C7: read_cache never returns, and never installs in memory, an object that
\* is no snapshot.
C7_ReadNeverInvalid ==
    /\ \A t \in Threads :
          (th[t].pc = "call_done" /\ th[t].res # NoData) => ValidateCacheData(th[t].res)
    /\ \A c \in DOMAIN cache_memory : ValidateCacheData(cache_memory[c])

SameEntry(m1, m2, c) ==
    /\ (c \in DOMAIN m1) = (c \in DOMAIN m2)
    /\ c \in DOMAIN m1 => m1[c] = m2[c]

LacksStopsMapping(d) == "stops" \notin DOMAIN d \/ ~IsInstanceDict(d.stops)

\* C8: write_cache of a snapshot without a 'stops' mapping returns failure and
\* leaves the category's memory entry, last-fetch time and file as they were.
C8_InvalidWriteRejected ==
    [][\A t \in Threads :
         (th[t].pc = "wc_memory" /\ th'[t].pc # "wc_memory"
              /\ LacksStopsMapping(th[t].data))
            => /\ th'[t].ok = FALSE
               /\ th'[t].pc = th[t].ret
               /\ SameEntry(cache_memory', cache_memory, th[t].type)
               /\ SameEntry(last_fetch_times', last_fetch_times, th[t].type)
               /\ SameEntry(files', files, th[t].type)]_vars

\* A write without a 'stops' mapping was refused for a category that has a
\* memory entry and a file.
C8_Witness ==
    \E t \in Reqs :
        /\ th[t].pc = "call_done"
        /\ ~th[t].ok
        /\ LacksStopsMapping(th[t].data)
        /\ th[t].type \in DOMAIN cache_memory
        /\ th[t].type \in DOMAIN files

LoopStamps == {k \in DOMAIN written : k > 1}

\* C3: every snapshot a refresh loop writes has every configured location as a
\* key of stops, with an empty list for a location whose fetch failed, and
\* while the loop is writing no future of its fan-out is unfinished.
C3_SnapshotComplete ==
    /\ \A k \in LoopStamps : Locations \subseteq DOMAIN written[k].stops
    /\ \A w \in WorkerIds :
          InWriteCache(w)
             => /\ Locations \subseteq DOMAIN th[w].data.stops
                /\ \A l \in Locations :
                      /\ future[l].state \in {"done", "raised"}
                      /\ future[l].state = "raised" => th[w].data.stops[l] = <<>>

\* A loop is writing a snapshot of a fan-out in which one location failed and
\* another returned stops.
C3_Witness ==
    \E w \in WorkerIds, l1, l2 \in Locations :
        /\ th[w].pc = "wc_file"
        /\ future[l1].state = "raised"
        /\ future[l2].state = "done" /\ future[l2].value # <<>>
        /\ cache_memory[th[w].type].stops[l1] = <<>>
        /\ cache_memory[th[w].type].stops[l2] # <<>>

\* The state SpecFetch starts from, as the application reaches it.
ActivatedState ==
    /\ cache_memory = [c \in {"ghost"} |-> SeedSnapshot(c)]
    /\ files = [c \in {"ghost"} |-> [decodes |-> TRUE, data |-> SeedSnapshot(c)]]
    /\ active_types = {"fairy", "ghost"}
    /\ \A t \in Reqs : th[t].pc = "done"
    /\ th[FirstWorker].pc = "fetch" /\ th[FirstWorker].type = "ghost"
    /\ write_seq = 1 /\ now = 0 /\ cache_locks = {"ghost"}
    /\ \A c \in Types : lock_holder[c] = NoThread

Processed(i) == i <= Len(accepted)

\* Record i carries the shared identifier 48 and passes the field checks and
\* the time window, so that only the matching rule decides.
SharedIdRecord(i) ==
    /\ ValidateStopData(invasions[i], current_time)
    /\ invasions[i].character = 48
    /\ InWindow(RemainingTime(invasions[i], current_time, TimeOffset(meta, current_time)))

HintText(i) == Lower(DictGet(invasions[i], "grunt_dialogue", <<>>))
HasElectricKeyword(i) == \E keyword \in electric_keywords : Contains(keyword, HintText(i))
HasGhostKeyword(i) == \E pattern \in GhostPatterns : Contains(pattern, HintText(i))

\* C9: a record with the shared identifier 48 is accepted by the electric
\* scraper exactly when its hint text has an electric keyword and by the ghost
\* scraper exactly when it has the ghost onomatopoeia, so that with 'volt' it
\* is electric only, with 'ke...ke...' ghost only, and with neither it is
\* rejected by both.
C9_SharedIdDecidedByKeyword ==
    \A i \in 1..Len(invasions) :
        (Processed(i) /\ SharedIdRecord(i))
           => /\ pokestop_type = "electric" => (accepted[i] <=> HasElectricKeyword(i))
              /\ pokestop_type = "ghost" => (accepted[i] <=> HasGhostKeyword(i))

\* C10: every stop in the list a scraper builds and returns has a
\* remaining_time strictly between MIN_REMAINING_TIME and MAX_REMAINING_TIME.
C10_RemainingTimeInWindow ==
    \A i \in 1..Len(stops) :
        /\ MIN_REMAINING_TIME < stops[i].remaining_time
        /\ stops[i].remaining_time < MAX_REMAINING_TIME

\* A returned list holds a stop created one second inside the window, and a
\* record of the same feed exactly on the boundary was turned down.
C10_Witness ==
    /\ scraper_pc = "done"
    /\ \E i \in 1..Len(stops) : stops[i].remaining_time = MAX_REMAINING_TIME - 1
    /\ \E i \in 1..Len(invasions) :
          /\ ValidateStopData(invasions[i], current_time)
          /\ invasions[i].character \in CharacterIds[pokestop_type]
          /\ RemainingTime(invasions[i], current_time, TimeOffset(meta, current_time))
                = MAX_REMAINING_TIME
          /\ ~accepted[i]

\* C11: the sleep that ends a refresh cycle lasts the idle cadence (600s) when
\* the category was last read more than 300s ago and UPDATE_INTERVAL otherwise.
C11_IdleCadence ==
    [][\A w \in WorkerIds :
          (th[w].pc = "sleep" /\ th'[w].pc = "fetch" /\ th[w].type \in DOMAIN last_read)
             => (now' - now) * 60 =
                   IF (now - last_read[th[w].type]) * 60 > 300 THEN 600
                   ELSE UPDATE_INTERVAL]_vars

\* The concurrency cap the claim is about, at the smallest value that two
\* requested types can exceed.
MAX_CONCURRENT_TYPES == 1

\* C12: the number of categories with a running refresh loop never exceeds
\* MAX_CONCURRENT_TYPES.
C12_LoopsWithinCap ==
    Cardinality({c \in Types : Loops(c) # {}}) <= MAX_CONCURRENT_TYPES

\* C13: fetch_location_data never raises to its caller; when every attempt
\* has failed it returns an empty list.
C13_NeverRaises ==
    /\ retry_pc # "raised"
    /\ (retry_pc = "returned" /\ outcomes[Len(outcomes)] # "ok") => retry_result = <<>>

\* C14: at most RETRY_ATTEMPTS attempts are made; the k-th wait is
\* RETRY_DELAY * 2^(k-1) and stands between attempt k and attempt k+1; no wait
\* follows the last attempt and no attempt follows a success.
C14_BoundedBackoff ==
    /\ Len(outcomes) <= RETRY_ATTEMPTS
    /\ \A k \in 1..Len(sleeps) : sleeps[k] = RETRY_DELAY * (2 ^ (k - 1))
    /\ retry_pc = "call" => Len(sleeps) = Len(outcomes)
    /\ retry_pc \in {"except", "returned", "raised"} => Len(sleeps) = Len(outcomes) - 1
    /\ \A k \in 1..(Len(outcomes) - 1) : outcomes[k] # "ok"
    /\ retry_pc = "raised" => Len(outcomes) = RETRY_ATTEMPTS

\* The wrapper gave up after three failed attempts, having waited 2s and 4s.
C14_Witness ==
    /\ retry_pc = "raised"
    /\ Len(outcomes) = 3
    /\ sleeps = <<2, 4>>

\* C15: after a non-transient failure no further attempt is made.
C15_NonTransientNotRetried ==
    \A k \in 1..(Len(outcomes) - 1) : outcomes[k] \notin NonTransientFailures

\* What a location contributes: nothing when its fetch failed, else its list.
OwnResult(l) == IF future[l].state = "raised" THEN <<>> ELSE future[l].value

\* C16: in a fan-out every filled slot holds its own location's result, an
\* empty list when that location failed, whatever happened to the other
\* locations; and once every fetch has ended, failed or not, the fan-out is
\* not abandoned: what the loop hands to write_cache has all these results.
C16_FailureIsolated ==
    /\ \A l \in DOMAIN stops_by_location : stops_by_location[l] = OwnResult(l)
    /\ \A w \in WorkerIds :
          /\ InWriteCache(w) => \A l \in Locations : th[w].data.stops[l] = OwnResult(l)
          /\ (th[w].pc = "collect" /\ \A l \in Locations : future[l].state # "pending")
                => ~ENABLED FanOutTimeout(w)

\* The loop is about to write the results of a fan-out in which one location
\* failed and another one's stops are kept.
C16_Witness ==
    \E w \in WorkerIds, l1, l2 \in Locations :
        /\ th[w].pc = "wc_acquire"
        /\ future[l1].state = "raised" /\ th[w].data.stops[l1] = <<>>
        /\ future[l2].state = "done" /\ future[l2].value # <<>>
        /\ th[w].data.stops[l2] = future[l2].value

InReadCache(t) == th[t].pc = "rc_body"
WritingCache(t) == th[t].pc \in {"wc_memory", "wc_file"}

\* C17: a write_cache that has reached the lock of its category can take it
\* while a read_cache of the same category is in progress, and a read_cache
\* can take it while a write_cache is in progress.
C17_ReadersWritersDoNotBlock ==
    \A t, u \in Threads :
        /\ (th[t].pc = "wc_acquire" /\ InReadCache(u) /\ th[u].type = th[t].type)
              => ENABLED AcquireCacheLock(t)
        /\ (th[t].pc = "rc_acquire" /\ WritingCache(u) /\ th[u].type = th[t].type)
              => ENABLED AcquireCacheLock(t)

\* C18: while a thread is about to change the active-type set or is changing
\* the in-memory maps of a type, holding the lock that guards them, no other
\* thread is reading them outside that lock.
C18_SharedStateUnderLock ==
    \A t, u \in Threads :
        th[t].pc = "stats_iter"
           => /\ th[u].pc # "sct_add"
              /\ ~(th[u].pc = "wc_memory" /\ th[u].type \in th[t].data.seen)

\* C19: the stored snapshots change only in a step of write_cache: no other
\* step, such as the rendering of a page, alters an entry of cache_memory.
C19_StoredSnapshotImmutable ==
    [][cache_memory' # cache_memory
          => \E t \in Threads : th[t].pc = "wc_memory" /\ th'[t].pc = "wc_file"]_vars

\* C20: once the process has been asked to terminate, no refresh loop starts
\* another fetch and none goes from its between-cycle wait back to another
\* cycle.
C20_LoopsStopOnShutdown ==
    [][process = "stopping"
          => \A w \in WorkerIds :
                /\ ~(th[w].pc = "fetch" /\ th'[w].pc # "fetch")
                /\ ~(th[w].pc = "sleep" /\ th'[w].pc = "fetch")]_vars

\* The positions of a refresh loop inside "while True".
LoopPositions == {"fetch", "wc_acquire", "wc_memory", "wc_file", "sleep"}

LoopOrder(from, to) ==
    \/ from = "fetch" /\ to \in {"wc_acquire", "sleep"}
    \/ from = "wc_acquire" /\ to = "wc_memory"
    \/ from = "wc_memory" /\ to \in {"wc_file", "sleep"}
    \/ from = "wc_file" /\ to = "sleep"
    \/ from = "sleep" /\ to = "fetch"

\* No thread is inside write_cache for a category whose loop is fetching.
NoWriteDuringFetch ==
    \A w \in WorkerIds, t \in Threads :
        ~(th[w].pc = "fetch" /\ InWriteCache(t) /\ th[t].type = th[w].type)

\* C22: every step of a refresh loop goes from fetch to write, from write to
\* wait and from wait to fetch, and no write of a category is in progress while
\* the loop of that category is fetching.
C22_FetchWriteWaitInOrder ==
    [][/\ \A w \in WorkerIds :
             (th[w].pc \in LoopPositions /\ th'[w].pc # th[w].pc)
                => LoopOrder(th[w].pc, th'[w].pc)
       /\ NoWriteDuringFetch
       /\ NoWriteDuringFetch']_vars

\* A loop has written its snapshot and is at its wait.
C22_Witness ==
    \E w \in WorkerIds :
        /\ th[w].pc = "sleep"
        /\ th[w].data # NoData
        /\ th[w].type \in DOMAIN cache_memory
        /\ cache_memory[th[w].type] = th[w].data

\* A file that decodes to a snapshot.
CompleteFile(f) == f.decodes /\ ValidateCacheData(f.data)

\* The file of a category is replaced only by the rename of a finished
\* temporary file.
FinalFileReplacedWhole ==
    /\ \A c \in DOMAIN files : CompleteFile(files[c])
    /\ \A c \in DOMAIN files' : CompleteFile(files'[c])
    /\ files' # files
          => \E t \in Threads :
                /\ th[t].pc = "wc_rename"
                /\ th'[t].pc = th[t].ret
                /\ files' = DictSet(files, th[t].type, [decodes |-> TRUE, data |-> th[t].data])

\* C23 (as amended): the file at the final path of a category is absent or
\* holds a whole snapshot in every state, and it changes only when a finished
\* temporary file is renamed over it, so a write that fails before the rename
\* leaves it as it was.
C23_FinalFileComplete == [][FinalFileReplacedWhole]_vars

\* json.dump failed while an earlier file of the category exists.
C23_Witness ==
    \E t \in Threads :
        /\ th[t].pc = "wc_cleanup"
        /\ th[t].type \in DOMAIN files
        /\ th[t].type \in DOMAIN temp_files
        /\ ~temp_files[th[t].type].decodes

\* C23 (as stated): the final file is whole or absent, and once a write has
\* returned no temporary file of the category is left.
C23_TempFileRemoved ==
    [][/\ FinalFileReplacedWhole
       /\ \A c \in Types : (lock_holder'[c] = NoThread) => c \notin DOMAIN temp_files']_vars

\* The positions of write_cache after the in-memory maps were updated.
InFileWrite(t) == th[t].pc \in {"wc_file", "wc_dump", "wc_rename", "wc_cleanup"}

\* C24: a write_cache of a valid snapshot that has updated memory returns
\* success however its file write ends, and on its return the in-memory entry
\* of the category is the new snapshot.
C24_FileFailureKeepsWrite ==
    [][\A t \in Threads :
          (InFileWrite(t) /\ th'[t].pc = th[t].ret)
             => /\ th'[t].ok
                /\ th[t].type \in DOMAIN cache_memory'
                /\ cache_memory'[th[t].type] = th[t].data
                /\ ValidateCacheData(th[t].data)]_vars

\* A write has returned success with a cache directory and the file of the
\* category does not hold its snapshot.
C24_Witness ==
    \E t \in Threads :
        /\ th[t].pc = "call_done"
        /\ th[t].ok
        /\ cache_dir
        /\ "cache_metadata" \in DOMAIN th[t].data
        /\ cache_memory[th[t].type] = th[t].data
        /\ th[t].type \in DOMAIN files => files[th[t].type].data # th[t].data

\* C25: no step of an export changes the set of active categories, takes the
\* lock of that set or starts a refresh loop.
C25_ExportSchedulesNothing ==
    [][\A t \in Reqs :
          (th'[t] # th[t] /\ "/download_gpx" \in {th[t].route, th'[t].route})
             => /\ active_types' = active_types
                /\ active_types_lock' = active_types_lock
                /\ \A w \in WorkerIds : th[w].pc = "unborn" => th'[w].pc = "unborn"]_vars

\* The export of a category that is not active has been answered and the
\* category has no loop.
C25_Witness ==
    \E t \in Reqs :
        /\ th[t].pc = "done"
        /\ th[t].route = "/download_gpx"
        /\ th[t].type \notin active_types
        /\ Loops(th[t].type) = {}

\* The record has coordinates in range and an end time inside the window.
InTimeWindow(stop) ==
    /\ {"lat", "lng", "invasion_end"} \subseteq DOMAIN stop
    /\ -90 * Degree <= stop.lat /\ stop.lat <= 90 * Degree
    /\ -180 * Degree <= stop.lng /\ stop.lng <= 180 * Degree
    /\ InWindow(RemainingTime(stop, current_time, TimeOffset(meta, current_time)))

\* C26: the scraper of a generic-label category accepts every record in the
\* time window whose text contains 'grunt', with any identifier or none.
C26_GenericMarkerAccepted ==
    \A i \in 1..Len(accepted) :
        (/\ StartsWith(TypeName[pokestop_type], Grunt)
         /\ InTimeWindow(invasions[i])
         /\ Contains(Grunt, HintText(i)))
           => accepted[i]

\* The category shares an identifier with another category of the catalog.
IdentifierColliding(c) ==
    \E d \in DOMAIN CharacterIds \ {c} : CharacterIds[c] \cap CharacterIds[d] # {}

\* The two special cases: the onomatopoeia for ghost, the shock-related
\* keywords for electric.
NamedSpecialCase(c, text) ==
    \/ c = "ghost" /\ Contains(<<"k", "e", ".", ".", ".", "k", "e", ".", ".", ".">>, text)
    \/ c = "electric" /\ \E keyword \in electric_keywords : Contains(keyword, text)

\* C27: for a category that is neither generic nor identifier-colliding, a
\* record that passes the field checks and the time window and whose identifier
\* is outside the set of the category is accepted exactly when its text contains
\* the name of the category or one of the two special cases.
C27_OnlyKeywordOrNamedCase ==
    \A i \in 1..Len(accepted) :
        (/\ ~StartsWith(TypeName[pokestop_type], Grunt)
         /\ ~IdentifierColliding(pokestop_type)
         /\ ValidateStopData(invasions[i], current_time)
         /\ InTimeWindow(invasions[i])
         /\ invasions[i].character \notin CharacterIds[pokestop_type])
           => (accepted[i] <=> \/ Contains(TypeName[pokestop_type], HintText(i))
                               \/ NamedSpecialCase(pokestop_type, HintText(i)))

\* The record lacks a coordinate or has one out of range.
BadGeometry(stop) ==
    \/ ~({"lat", "lng"} \subseteq DOMAIN stop)
    \/ stop.lat < -90 * Degree \/ stop.lat > 90 * Degree
    \/ stop.lng < -180 * Degree \/ stop.lng > 180 * Degree

\* C28: a record without lat or lng or with a coordinate out of range is not
\* accepted, the loop goes on to the records after it, which are accepted when
\* they match, and the function returns its list.
C28_BadGeometryDropped ==
    /\ scraper_pc \in {"loop", "done"}
    /\ scraper_pc = "done" => Len(accepted) = Len(invasions)
    /\ \A i \in 1..Len(accepted) :
          /\ BadGeometry(invasions[i]) => ~accepted[i]
          /\ (/\ ValidateStopData(invasions[i], current_time)
              /\ InTimeWindow(invasions[i])
              /\ invasions[i].character \in CharacterIds[pokestop_type])
                => accepted[i]
    /\ scraper_pc = "done"
          => \A k \in 1..Len(stops) : ~BadGeometry(stops[k])

\* The first record of a feed had no usable coordinates, the second was
\* accepted, and the list with that one stop was returned.
C28_Witness ==
    /\ scraper_pc = "done"
    /\ Len(invasions) = 2
    /\ BadGeometry(invasions[1])
    /\ accepted = <<FALSE, TRUE>>
    /\ Len(stops) = 1

\* C29: the page that a request is about to render answers with status 200,
\* and when the dict it has read is no valid snapshot the page shows the empty
\* template: every location with an empty list.
C29_PageAlwaysNormal ==
    \A t \in Reqs :
        th[t].pc = "page_render"
           => /\ PageResponse(th[t].res).status = 200
              /\ ~ValidateCacheData(th[t].res)
                    => PageResponse(th[t].res).stops = [l \in Locations |-> <<>>]

\* C30: every category in the set of active categories has a refresh loop
\* that was started.
C30_ActiveTypeHasLoop ==
    \A c \in active_types : Loops(c) # {}

\* The thread is inside "with cache_lock" of read_cache or write_cache.
InLockedSection(t) == th[t].pc \in {"rc_body", "wc_memory", "wc_file"}

\* C31: no two threads are inside the locked sections of read_cache or
\* write_cache for the same category at once.
C31_CacheLockExcludes ==
    \A t, u \in Threads :
        (t # u /\ InLockedSection(t) /\ InLockedSection(u)) => th[t].type # th[u].type

\* The thread holding the lock that thread t is waiting for (NoThread when t is
\* not waiting for a lock that is held).
WaitsFor(t) ==
    IF th[t].pc = "sct_acquire" THEN active_types_lock
    ELSE IF th[t].pc \in {"rc_acquire", "wc_acquire", "cl_acquire"} /\ th[t].cache_lock = 0
      THEN (IF lock_table.master = t THEN NoThread ELSE lock_table.master)
    ELSE IF th[t].pc \in {"rc_acquire", "wc_acquire"}
      THEN lock_table.owner[th[t].cache_lock]
    ELSE NoThread

\* The thread at the end of the chain of waits that starts at t, after at most
\* n waits.
RECURSIVE WaitChain(_, _)
WaitChain(t, n) ==
    IF t = NoThread \/ n = 0 THEN t ELSE WaitChain(WaitsFor(t), n - 1)

\* The thread is inside "with active_types_lock" of start_cache_thread.
InStartCacheThread(t) ==
    \/ th[t].pc \in {"sct_check", "init_check", "sct_start", "sct_add"}
    \/ /\ th[t].pc \in {"rc_acquire", "rc_body", "wc_acquire", "wc_memory", "wc_file"}
       /\ th[t].ret \in {"init_check", "sct_start"}

\* The thread is inside "with self.master_lock".
InMasterSection(t) ==
    th[t].pc \in {"rc_acquire", "wc_acquire", "cl_acquire"} /\ th[t].cache_lock = 0

\* C32: the locks never deadlock: every lock that is held is held by a thread
\* that is still inside the with-block of that lock, and no chain of threads
\* waiting for each other's locks closes into a cycle.
C32_NoLockDeadlock ==
    /\ active_types_lock # NoThread => InStartCacheThread(active_types_lock)
    /\ lock_table.master # NoThread => InMasterSection(lock_table.master)
    /\ \A i \in DOMAIN lock_table.owner :
          lock_table.owner[i] # NoThread =>
              /\ InLockedSection(lock_table.owner[i])
              /\ th[lock_table.owner[i]].cache_lock = i
    /\ \A t \in Threads : WaitChain(t, Cardinality(Threads)) = NoThread

\* A thread waits for a lock whose holder is itself waiting for another lock.
C32_Witness ==
    \E t \in Threads :
        /\ WaitsFor(t) # NoThread
        /\ WaitsFor(WaitsFor(t)) # NoThread

\* The thread is inside the write_cache that initialize_cache calls.
InInitializeWrite(t) ==
    th[t].pc \in {"wc_memory", "wc_file"} /\ th[t].ret = "sct_start"

\* The file of type c in directory f holds a snapshot with at least one stop.
FileHoldsStops(f, c) == c \in DOMAIN f /\ f[c].decodes /\ AnyStops(f[c].data)

\* The memory entry of type c in m holds a snapshot with at least one stop.
MemoryHoldsStops(m, c) == c \in DOMAIN m /\ AnyStops(m[c])

\* C33: no step of initialize_cache replaces a snapshot that holds a stop, in
\* memory or in the file, by one that holds none.
C33_InitializeKeepsStops ==
    [][\A t \in Reqs :
          InInitializeWrite(t) /\ th'[t] # th[t] =>
              /\ FileHoldsStops(files, th[t].type) => FileHoldsStops(files', th[t].type)
              /\ MemoryHoldsStops(cache_memory, th[t].type)
                    => MemoryHoldsStops(cache_memory', th[t].type)]_vars

\* The step is the end of a cycle of loop w that failed as a whole: the fan-out
\* raised, or write_cache returned False.
FailedCycleStep(w) ==
    \/ th[w].pc = "fetch" /\ th'[w].pc = "sleep"
    \/ th[w].pc = "wc_memory" /\ th'[w].pc = "sleep" /\ ~th'[w].ok

\* C34: a refresh cycle that fails as a whole leaves the cache entry of its
\* category, in memory and in the file, as it was.
C34_FailedCycleKeepsSnapshot ==
    [][\A w \in WorkerIds :
          FailedCycleStep(w) =>
              /\ DictGet(cache_memory', th[w].type, NoData)
                    = DictGet(cache_memory, th[w].type, NoData)
              /\ DictGet(files', th[w].type, NoData) = DictGet(files, th[w].type, NoData)
              /\ DictGet(last_fetch_times', th[w].type, -1)
                    = DictGet(last_fetch_times, th[w].type, -1)]_vars

\* A loop has just failed a cycle while the entry of its category holds a
\* snapshot with stops that a cycle has written.
C34_Witness ==
    \E w \in WorkerIds :
        /\ th[w].pc = "sleep"
        /\ th[w].data = NoData
        /\ MemoryHoldsStops(cache_memory, th[w].type)
        /\ "cache_metadata" \in DOMAIN cache_memory[th[w].type]

\* invasion_end minus the feed's own clock
FeedRemainingTime(stop) == stop.invasion_end - DictGet(meta, "time", current_time)

\* C35: a processed record with the required fields, coordinates in range, an
\* identifier of the category and a remaining time by the feed's clock strictly
\* between MIN_REMAINING_TIME and MAX_REMAINING_TIME is accepted, whatever the
\* difference between the two clocks.
C35_ValidByFeedClockIncluded ==
    \A i \in 1..Len(accepted) :
        (/\ {"lat", "lng", "invasion_end", "character"} \subseteq DOMAIN invasions[i]
         /\ CoordinatesInRange(invasions[i].lat, invasions[i].lng)
         /\ invasions[i].character \in CharacterIds[pokestop_type]
         /\ MIN_REMAINING_TIME < FeedRemainingTime(invasions[i])
         /\ FeedRemainingTime(invasions[i]) < MAX_REMAINING_TIME)
            => accepted[i]

\* The key the claim names: lat and lng to six decimal places, and character.
RoundedKey(stop) == <<Round6(stop.lat), Round6(stop.lng), stop.character>>

\* The position in list of the first stop with the key of list[i].
FirstWithKey(list, i) ==
    CHOOSE j \in 1..i :
        /\ HasIdentifier(list[j]) /\ RoundedKey(list[j]) = RoundedKey(list[i])
        /\ \A k \in 1..(j - 1) :
              HasIdentifier(list[k]) => RoundedKey(list[k]) # RoundedKey(list[i])

\* out is what the claim says deduplicate_stops makes of inp.
DeduplicatedFrom(inp, out) ==
    /\ \A p \in 1..Len(out) : HasIdentifier(out[p])
    /\ \A p, q \in 1..Len(out) : p # q => RoundedKey(out[p]) # RoundedKey(out[q])
    /\ \A i \in 1..Len(inp) :
          HasIdentifier(inp[i]) =>
              \E p \in 1..Len(out) : out[p] = inp[FirstWithKey(inp, i)]
    /\ \E at \in [1..Len(out) -> 1..Len(inp)] :
          /\ \A p \in 1..Len(out) :
                /\ HasIdentifier(inp[at[p]])
                /\ out[p] = inp[at[p]]
                /\ FirstWithKey(inp, at[p]) = at[p]
          /\ \A p, q \in 1..Len(out) : p < q => at[p] < at[q]

\* C36: the result of deduplicate_stops has no two stops with the same rounded
\* key, holds the first stop of every key in the order of the input and no
\* stop without lat, lng or character, and a second application changes nothing.
C36_DeduplicateStops ==
    [][/\ (scraper_pc = "call" /\ scraper_pc' = "once") => DeduplicatedFrom(invasions, stops')
       /\ (scraper_pc = "once" /\ scraper_pc' = "twice") => stops' = stops]_vars

\* Of three stops given, one lacks a field and the other two differ in the
\* seventh decimal place only: the first of the two is the result, twice.
C36_Witness ==
    /\ scraper_pc = "twice"
    /\ Len(invasions) = 3
    /\ ~HasIdentifier(invasions[1])
    /\ HasIdentifier(invasions[2]) /\ HasIdentifier(invasions[3])
    /\ invasions[2] # invasions[3]
    /\ stops = <<invasions[2]>>

\* The catalog key the claim gives for a 'type' argument: the key that the
\* argument spells once lower-cased and stripped, 'fairy' for anything else.
ClaimedKey(raw) ==
    IF IsInstanceStr(raw) /\ \E c \in DOMAIN KeyText : KeyText[c] = Strip(Lower(raw.str))
      THEN CHOOSE c \in DOMAIN KeyText : KeyText[c] = Strip(Lower(raw.str))
      ELSE "fairy"

\* C37: validate_input gives 'fairy' for a missing, non-string or unknown type
\* and the key itself for a key in any case and between blanks; every type a
\* request carries past it, every refresh loop and the active set are within
\* the catalog keys.
C37_OnlyCatalogKeys ==
    [][/\ \A t \in Reqs :
            (th[t].pc = "validate" /\ th'[t].pc = "sct_check")
                => th'[t].type = ClaimedKey(th[t].data)
       /\ active_types' \subseteq DOMAIN KeyText
       /\ \A w \in WorkerIds : th'[w].pc # "unborn" => th'[w].type \in DOMAIN KeyText]_vars

\* The loop of ghost has been started (of the arguments drawn only ' Ghost '
\* spells ghost), and a request whose argument was no key has got 'fairy'.
C37_Witness ==
    /\ "ghost" \in active_types
    /\ Loops("ghost") # {}
    /\ \E t \in Reqs : th[t].pc = "sct_check" /\ th[t].type = "fairy"

\* The places (location, position) of the stops of snapshot d whose
\* remaining_time is strictly greater than 600.
PlacesOverThreshold(d) ==
    UNION {{<<l, i>> : i \in {k \in 1..Len(d.stops[l]) :
                                  /\ d.stops[l][k] # NoRemainingTime
                                  /\ d.stops[l][k] > 600}} : l \in DOMAIN d.stops}

====
